---- MODULE Spec2Model ----
(***************************************************************************)
(* A model of gpt_researcher/retrievers/custom/custom.py: the query-intent *)
(* extractors of CustomRetriever (case number, organization name, document *)
(* type), the request builder search_court_decisions, the top-level        *)
(* search() with its multi-index fallback, and the constructor.            *)
(*                                                                         *)
(* Texts are sequences of Unicode code points, so that the character       *)
(* classes of the regular expressions ([АA], [А-Яа-я], \d, \s ...) and     *)
(* str.lower() are modelled by what they do on each character.             *)
(*                                                                         *)
(* custom.py holds the markers of an unresolved merge (lines 57, 412 and   *)
(* 419); the side marked "Updated upstream", lines 58 to 411, is modelled. *)
(*                                                                         *)
(* The date post-processing of a hit (strptime followed by strftime) has a *)
(* specification of its own, SpecDates, and so has GoogleSearch.search of  *)
(* gpt_researcher/retrievers/google/google.py, SpecGoogle (SpecGoogleFair  *)
(* with the fairness of its loop). The queries of an adapter and the       *)
(* adapters of the service of lawgpt_deep_research_integration.py are      *)
(* SpecLegalQueries and SpecLegal.                                         *)
(***************************************************************************)
EXTENDS Integers, Sequences, FiniteSets, TLC

VARIABLES
    text,        \* the argument of the extractor calls (SpecExtract)
    case_out,    \* what extract_case_number(text) returned, Unset before the call
    company_out, \* what extract_company_name(text) returned
    doctype_out, \* what extract_document_type(text) returned
    query,       \* self.query
    es,          \* self.es: "unset" before __init__, then "client" or "None"
    initlog,     \* the error and warning records logged by __init__, in order
    pc,          \* where the retriever's caller is: new, ready, case, company, fallback, done
    call,        \* the public method running or last run: none, search, search_court_decisions
    max_results, \* the argument of the call: max_results of search(), limit of search_court_decisions()
    requests,    \* the request bodies built by the call, in order
    responses,   \* what self.es.search did for each of them: Fail or the hits
    calllog,     \* the error records logged by the call, in order
    idx,         \* the position in ES_INDICES the fallback loop is at, 0 outside the loop
    all_results, \* the local list all_results of search()
    scd,         \* the calls of search_court_decisions within the call, in order
    ret,         \* what the call returned, Unset while it runs
    hit_source,  \* the date fields of hit["_source"] as the backend returned them (SpecDates)
    source,      \* the same fields of the mapping source that the post-processing works on
    dpc,         \* where the post-processing of the hit is: idle, court, fallback, done
    gpc,         \* where GoogleSearch.search is: idle, loop, done (SpecGoogle)
    g_max_results, \* max_results of GoogleSearch.search
    g_results,   \* the local list results of GoogleSearch.search
    g_start_index, \* the local start_index of GoogleSearch.search
    g_items,     \* the items of the responses received so far, in order
    g_ret,       \* what GoogleSearch.search returned
    g_calls,     \* the calls of _make_search_request: start index, outcome
    adapters,    \* self.adapters of the LawGPTDeepResearchService
    registered,  \* the calls of register_research_type so far, in order
    service_call, \* the last call of conduct_research and what came of it
    legal_queries \* the last call of generate_legal_queries and its return

vars == <<text, case_out, company_out, doctype_out, query, es, initlog, pc, call,
          max_results, requests, responses, calllog, idx, all_results, scd, ret,
          hit_source, source, dpc, gpc, g_max_results, g_results, g_start_index,
          g_items, g_ret, g_calls, adapters, registered, service_call,
          legal_queries>>

extractVars == <<text, case_out, company_out, doctype_out>>
searchVars == <<query, es, initlog, pc, call, max_results, requests, responses,
               calllog, idx, all_results, scd, ret>>
dateVars == <<hit_source, source, dpc>>
googleVars ==
    <<gpc, g_max_results, g_results, g_start_index, g_items, g_ret, g_calls>>
legalVars == <<adapters, registered, service_call, legal_queries>>

-----------------------------------------------------------------------------
(* Python values *)

\* None, as a value no text equals (no code point is negative)
None == <<-1>>

\* a variable that holds no value yet
Unset == <<-2>>

\* the outcome of a call that raised instead of returning
Raised == <<-3>>

\* a Python str (data: its code points) or bytes (data: its bytes)
Str(t) == [kind |-> "str", data |-> t]
Bytes(b) == [kind |-> "bytes", data |-> b]

\* the truth value of an Optional[str] in `if x:`
Truthy(x) == x # None /\ x # <<>>

Min(S) == CHOOSE x \in S : \A y \in S : x <= y
Max(S) == CHOOSE x \in S : \A y \in S : y <= x

-----------------------------------------------------------------------------
(* Character classes of the `re` module on str patterns, as sets of code *)
(* points                                                                 *)

\* the code points of the model's texts (below U+0800)
Chars == 0..2047

\* \d : a Unicode decimal digit; the texts of the model hold ASCII digits and
\* Arabic-Indic digits (U+0660..U+0669)
Digits == (48..57) \cup (1632..1641)

IsDigit(c) == c \in Digits

\* the value int() gives a decimal digit
DigitVal(c) == IF c \in 48..57 THEN c - 48 ELSE c - 1632

\* \s : Unicode white space (tab..CR, space, no-break space)
Spaces == (9..13) \cup {32, 160}

IsSpace(c) == c \in Spaces

\* [АA] : Cyrillic А (U+0410) or Latin A
IsCasePrefix(c) == c = 1040 \/ c = 65

\* [А-Яа-яA-Za-z0-9] : U+0410..U+044F, ASCII letters, ASCII digits (not ё/Ё)
SuffixChars == (1040..1103) \cup (65..90) \cup (97..122) \cup (48..57)

IsSuffixChar(c) == c \in SuffixChars

\* [«"] and [»"]
IsOpenQuote(c) == c = 171 \/ c = 34

IsCloseQuote(c) == c = 187 \/ c = 34

\* [^»"]
NotCloseQuotes == Chars \ {187, 34}

\* [А-Яа-яA-Za-z0-9\s\-]
NameChars == SuffixChars \cup Spaces \cup {45}

IsNameChar(c) == c \in NameChars

\* [А-Я] and [а-я] with IGNORECASE: a letter of U+0410..U+044F in either case
CyrLetters == 1040..1103

IsCyr(c) == c \in CyrLetters

\* the last index j >= i-1 such that every s[i..j] is in the class (a greedy run)
RunEnd(s, i, cls) ==
    LET bad == {j \in i..Len(s) : s[j] \notin cls}
    IN  IF bad = {} THEN Len(s) ELSE Min(bad) - 1

At(s, i, c) == i >= 1 /\ i <= Len(s) /\ s[i] = c

\* s holds w at position i
HasAt(s, i, w) ==
    /\ i >= 1
    /\ i + Len(w) - 1 <= Len(s)
    /\ \A k \in 1..Len(w) : s[i + k - 1] = w[k]

\* str.find: the first position of w in s from position from, 0 when there is none
Find(s, w, from) ==
    LET hits == {i \in from..(Len(s) - Len(w) + 1) : HasAt(s, i, w)}
    IN  IF hits = {} THEN 0 ELSE Min(hits)

\* `w in s`
Contains(s, w) == Find(s, w, 1) # 0

\* s.replace(old, new, 1)
ReplaceFirst(s, old, new) ==
    LET i == Find(s, old, 1)
    IN  IF i = 0 THEN s
        ELSE SubSeq(s, 1, i - 1) \o new \o SubSeq(s, i + Len(old), Len(s))

\* s.replace(a, b) for one-character a and b
ReplaceChar(s, a, b) == [i \in 1..Len(s) |-> IF s[i] = a THEN b ELSE s[i]]

-----------------------------------------------------------------------------
(* The patterns of extract_case_number *)

\* (?:-[А-Яа-яA-Za-z0-9]+)* after position e: the end of the greedy repetition
RECURSIVE SuffixEnd(_, _)
SuffixEnd(s, e) ==
    IF At(s, e + 1, 45) /\ RunEnd(s, e + 2, SuffixChars) >= e + 2
    THEN SuffixEnd(s, RunEnd(s, e + 2, SuffixChars))
    ELSE e

\* the faulty variant of CaseTail whose year is \d{1,4}
CaseTailOneDigitYear(s, p) ==
    LET n == RunEnd(s, p + 1, Digits)
        y == RunEnd(s, n + 2, Digits)
        ye == IF y > n + 5 THEN n + 5 ELSE y
    IN  IF At(s, p, 45) /\ n >= p + 1 /\ At(s, n + 1, 47) /\ y >= n + 2
        THEN SuffixEnd(s, ye)
        ELSE 0

\* -\d+/\d{2,4}(?:-[А-Яа-яA-Za-z0-9]+)* with the dash at position p: the end of
\* the match, 0 when there is none
CaseTail(s, p) ==
    LET n == RunEnd(s, p + 1, Digits)      \* \d+ takes every digit
        y == RunEnd(s, n + 2, Digits)      \* the digits after the slash
        ye == IF y > n + 5 THEN n + 5 ELSE y  \* \d{2,4} takes at most four
    IN  IF At(s, p, 45) /\ n >= p + 1 /\ At(s, n + 1, 47) /\ y >= n + 3
        THEN SuffixEnd(s, ye)
        ELSE 0

\* [АA]\d{1,2}-\d+/\d{2,4}(?:-...)* at position i
MatchCase1(s, i) ==
    LET d == RunEnd(s, i + 1, Digits)
    IN  IF IsCasePrefix(s[i]) /\ d - i \in 1..2
        THEN CaseTail(s, d + 1)
        ELSE 0

\* [АA]-\d+/\d{2,4}(?:-...)* at position i
MatchCase2(s, i) ==
    IF IsCasePrefix(s[i]) THEN CaseTail(s, i + 1) ELSE 0

-----------------------------------------------------------------------------
(* The patterns of extract_company_name (searched with re.IGNORECASE) *)

\* str.lower() of one character: A-Z, А-Я, Ѐ-Џ (Ё among them)
LowerChar(c) ==
    IF c \in 65..90 \/ c \in 1040..1071 THEN c + 32
    ELSE IF c \in 1024..1039 THEN c + 80
    ELSE c

\* query.lower()
Lower(s) == [i \in 1..Len(s) |-> LowerChar(s[i])]

\* s holds the literal w at position i, letter case ignored
HasAtI(s, i, w) ==
    /\ i >= 1
    /\ i + Len(w) - 1 <= Len(s)
    /\ \A k \in 1..Len(w) : LowerChar(s[i + k - 1]) = LowerChar(w[k])

\* ООО, ЗАО, ОАО, ПАО, АО: the alternatives of (?:ООО|ЗАО|ОАО|ПАО|АО), in order
LegalForms ==
    << <<1054, 1054, 1054>>, <<1047, 1040, 1054>>, <<1054, 1040, 1054>>,
       <<1055, 1040, 1054>>, <<1040, 1054>> >>

\* \s*[«"]([^»"]+)[»"] from position p
QuotedName(s, p) ==
    LET w == RunEnd(s, p, Spaces)
        r == RunEnd(s, w + 2, NotCloseQuotes)
    IN  IF w + 1 <= Len(s) /\ IsOpenQuote(s[w + 1]) /\ r >= w + 2 /\ r + 1 <= Len(s)
        THEN r + 1
        ELSE 0

\* \s+([А-Яа-яA-Za-z0-9\s\-]+) from position p: \s+ gives back one space when the
\* name needs it, so the match is the run of name characters from p, which
\* begins with a space and has two characters or more
BareName(s, p) ==
    LET r == RunEnd(s, p, NameChars)
    IN  IF p <= Len(s) /\ IsSpace(s[p]) /\ r >= p + 1 THEN r ELSE 0

\* (?:ООО|ЗАО|ОАО|ПАО|АО) at position i followed by the rest of
\* the pattern (quoted or bare name): the first alternative,
\* in order, after which the rest matches; the end of the match, 0 when none does
AfterLegalForm(s, i, rest) ==
    LET Rest(p) == IF rest = "quoted" THEN QuotedName(s, p) ELSE BareName(s, p)
        ok == {k \in 1..Len(LegalForms) :
                  HasAtI(s, i, LegalForms[k]) /\ Rest(i + Len(LegalForms[k])) # 0}
    IN  IF ok = {} THEN 0 ELSE Rest(i + Len(LegalForms[Min(ok)]))

MatchCompany1(s, i) == AfterLegalForm(s, i, "quoted")

MatchCompany2(s, i) == AfterLegalForm(s, i, "bare")

\* \s+[А-Я][а-я]+ from position p: the end of the word, 0 when there is none
SpaceWord(s, p) ==
    LET w == RunEnd(s, p, Spaces)
        r == RunEnd(s, w + 1, CyrLetters)
    IN  IF p >= 1 /\ w >= p /\ r >= w + 2 THEN r ELSE 0

\* ИП\s+[А-Я][а-я]+\s+[А-Я][а-я]+\s+[А-Я][а-я]+
MatchCompany3(s, i) ==
    LET w1 == SpaceWord(s, i + 2)
        w2 == IF w1 = 0 THEN 0 ELSE SpaceWord(s, w1 + 1)
        w3 == IF w2 = 0 THEN 0 ELSE SpaceWord(s, w2 + 1)
    IN  IF HasAtI(s, i, <<1048, 1055>>) THEN w3 ELSE 0

\* \s*:\s*(\d{n}|\d{m}) with n < m, from position p: the first alternative
\* matches whenever the second would, so the match ends after n digits
ColonDigits(s, p, n) ==
    LET w == RunEnd(s, p, Spaces)
        v == RunEnd(s, w + 2, Spaces)
        d == RunEnd(s, v + 1, Digits)
    IN  IF At(s, w + 1, 58) /\ d - v >= n THEN v + n ELSE 0

\* ОГРН\s*:\s*(\d{13}|\d{15})
MatchCompany4(s, i) ==
    IF HasAtI(s, i, <<1054, 1043, 1056, 1053>>) THEN ColonDigits(s, i + 4, 13) ELSE 0

\* ИНН\s*:\s*(\d{10}|\d{12})
MatchCompany5(s, i) ==
    IF HasAtI(s, i, <<1048, 1053, 1053>>) THEN ColonDigits(s, i + 3, 10) ELSE 0

-----------------------------------------------------------------------------
(* re.search and the extractors' pattern loops *)

\* re.search: ends[i] is the end of the pattern's match at position i, 0 when it
\* does not match there; the result is the leftmost match
NoMatch == [start |-> 0, end |-> 0]

ReSearch(ends) ==
    LET starts == {i \in DOMAIN ends : ends[i] # 0}
    IN  IF starts = {} THEN NoMatch
        ELSE [start |-> Min(starts), end |-> ends[Min(starts)]]

\* match.group(0)
Group0(s, m) == SubSeq(s, m.start, m.end)

\* the faulty variant of FullYear whose pivot is <= 50
FullYearBug(yy) ==
    (IF 10 * DigitVal(yy[1]) + DigitVal(yy[2]) <= 50 THEN <<50, 48>> ELSE <<49, 57>>) \o yy

\* f"20{year_part}" if int(year_part) < 50 else f"19{year_part}"
FullYear(yy) ==
    (IF 10 * DigitVal(yy[1]) + DigitVal(yy[2]) < 50 THEN <<50, 48>> ELSE <<49, 57>>) \o yy

\* the year normalisation of a matched case number
NormalizeYear(cn) ==
    LET slash == Find(cn, <<47>>, 1)
        \* parts[1]: up to the next slash; .split('-')[0]: up to the first dash
        stops == {j \in (slash + 1)..Len(cn) : cn[j] = 47 \/ cn[j] = 45}
        yend == IF stops = {} THEN Len(cn) ELSE Min(stops) - 1
        year_part == SubSeq(cn, slash + 1, yend)
    IN  IF slash # 0 /\ Len(year_part) = 2
        THEN ReplaceFirst(cn, <<47>> \o year_part, <<47>> \o FullYear(year_part))
        ELSE cn

\* the pattern loop of extract_case_number on a str
match_case_number(q) ==
    LET m1 == ReSearch([i \in 1..Len(q) |-> MatchCase1(q, i)])
        m2 == ReSearch([i \in 1..Len(q) |-> MatchCase2(q, i)])
    IN  IF m1 # NoMatch THEN NormalizeYear(Group0(q, m1))
        ELSE IF m2 # NoMatch THEN NormalizeYear(Group0(q, m2))
        ELSE None

\* the faulty variant of match_company_name that returns match.group(1), the inner name
match_company_name_group1(q) ==
    LET m1 == ReSearch([i \in 1..Len(q) |-> MatchCompany1(q, i)])
        m2 == ReSearch([i \in 1..Len(q) |-> MatchCompany2(q, i)])
        m3 == ReSearch([i \in 1..Len(q) |-> MatchCompany3(q, i)])
        m4 == ReSearch([i \in 1..Len(q) |-> MatchCompany4(q, i)])
        m5 == ReSearch([i \in 1..Len(q) |-> MatchCompany5(q, i)])
        open(m) == Min({j \in m.start..m.end : IsOpenQuote(q[j])})
        form(m) == Min({k \in 1..Len(LegalForms) : HasAtI(q, m.start, LegalForms[k])})
        name(m) == RunEnd(q, m.start + Len(LegalForms[form(m)]), Spaces) + 1
    IN  IF m1 # NoMatch THEN SubSeq(q, open(m1) + 1, m1.end - 1)
        ELSE IF m2 # NoMatch THEN SubSeq(q, name(m2), m2.end)
        ELSE IF m3 # NoMatch THEN Group0(q, m3)
        ELSE IF m4 # NoMatch THEN SubSeq(q, m4.end - 12, m4.end)
        ELSE IF m5 # NoMatch THEN SubSeq(q, m5.end - 9, m5.end)
        ELSE None

\* the faulty variant of match_company_name that returns the leftmost of the
\* matches of all the patterns, the earlier pattern's at equal positions
match_company_name_leftmost(q) ==
    LET ms == <<ReSearch([i \in 1..Len(q) |-> MatchCompany1(q, i)]),
                ReSearch([i \in 1..Len(q) |-> MatchCompany2(q, i)]),
                ReSearch([i \in 1..Len(q) |-> MatchCompany3(q, i)]),
                ReSearch([i \in 1..Len(q) |-> MatchCompany4(q, i)]),
                ReSearch([i \in 1..Len(q) |-> MatchCompany5(q, i)])>>
        found == {k \in 1..5 : ms[k] # NoMatch}
        first == Min({ms[k].start : k \in found})
    IN  IF found = {} THEN None
        ELSE Group0(q, ms[Min({k \in found : ms[k].start = first})])

\* the pattern loop of extract_company_name on a str: match.group(0)
match_company_name(q) ==
    LET m1 == ReSearch([i \in 1..Len(q) |-> MatchCompany1(q, i)])
        m2 == ReSearch([i \in 1..Len(q) |-> MatchCompany2(q, i)])
        m3 == ReSearch([i \in 1..Len(q) |-> MatchCompany3(q, i)])
        m4 == ReSearch([i \in 1..Len(q) |-> MatchCompany4(q, i)])
        m5 == ReSearch([i \in 1..Len(q) |-> MatchCompany5(q, i)])
    IN  IF m1 # NoMatch THEN Group0(q, m1)
        ELSE IF m2 # NoMatch THEN Group0(q, m2)
        ELSE IF m3 # NoMatch THEN Group0(q, m3)
        ELSE IF m4 # NoMatch THEN Group0(q, m4)
        ELSE IF m5 # NoMatch THEN Group0(q, m5)
        ELSE None

-----------------------------------------------------------------------------
(* extract_document_type *)

\* the table doc_types, in its declared order (a dict keeps insertion order)
doc_types == <<
    \* исковое заявление: исковое заявление, иск
    [label |-> <<1080, 1089, 1082, 1086, 1074, 1086, 1077, 32, 1079, 1072, 1103, 1074, 1083, 1077, 1085, 1080, 1077>>,
     variants |-> <<<<1080, 1089, 1082, 1086, 1074, 1086, 1077, 32, 1079, 1072, 1103, 1074, 1083, 1077, 1085, 1080, 1077>>,
                   <<1080, 1089, 1082>>>>],
    \* отзыв: отзыв на исковое заявление, отзыв
    [label |-> <<1086, 1090, 1079, 1099, 1074>>,
     variants |-> <<<<1086, 1090, 1079, 1099, 1074, 32, 1085, 1072, 32, 1080, 1089, 1082, 1086, 1074, 1086, 1077, 32, 1079, 1072, 1103, 1074, 1083, 1077, 1085, 1080, 1077>>,
                   <<1086, 1090, 1079, 1099, 1074>>>>],
    \* апелляционная жалоба: апелляционная жалоба, апелляция
    [label |-> <<1072, 1087, 1077, 1083, 1083, 1103, 1094, 1080, 1086, 1085, 1085, 1072, 1103, 32, 1078, 1072, 1083, 1086, 1073, 1072>>,
     variants |-> <<<<1072, 1087, 1077, 1083, 1083, 1103, 1094, 1080, 1086, 1085, 1085, 1072, 1103, 32, 1078, 1072, 1083, 1086, 1073, 1072>>,
                   <<1072, 1087, 1077, 1083, 1083, 1103, 1094, 1080, 1103>>>>],
    \* кассационная жалоба: кассационная жалоба, кассация
    [label |-> <<1082, 1072, 1089, 1089, 1072, 1094, 1080, 1086, 1085, 1085, 1072, 1103, 32, 1078, 1072, 1083, 1086, 1073, 1072>>,
     variants |-> <<<<1082, 1072, 1089, 1089, 1072, 1094, 1080, 1086, 1085, 1085, 1072, 1103, 32, 1078, 1072, 1083, 1086, 1073, 1072>>,
                   <<1082, 1072, 1089, 1089, 1072, 1094, 1080, 1103>>>>],
    \* заявление: заявление, ходатайство
    [label |-> <<1079, 1072, 1103, 1074, 1083, 1077, 1085, 1080, 1077>>,
     variants |-> <<<<1079, 1072, 1103, 1074, 1083, 1077, 1085, 1080, 1077>>,
                   <<1093, 1086, 1076, 1072, 1090, 1072, 1081, 1089, 1090, 1074, 1086>>>>],
    \* определение: определение суда
    [label |-> <<1086, 1087, 1088, 1077, 1076, 1077, 1083, 1077, 1085, 1080, 1077>>,
     variants |-> <<<<1086, 1087, 1088, 1077, 1076, 1077, 1083, 1077, 1085, 1080, 1077, 32, 1089, 1091, 1076, 1072>>>>],
    \* решение: решение суда
    [label |-> <<1088, 1077, 1096, 1077, 1085, 1080, 1077>>,
     variants |-> <<<<1088, 1077, 1096, 1077, 1085, 1080, 1077, 32, 1089, 1091, 1076, 1072>>>>],
    \* постановление: постановление суда, постановление
    [label |-> <<1087, 1086, 1089, 1090, 1072, 1085, 1086, 1074, 1083, 1077, 1085, 1080, 1077>>,
     variants |-> <<<<1087, 1086, 1089, 1090, 1072, 1085, 1086, 1074, 1083, 1077, 1085, 1080, 1077, 32, 1089, 1091, 1076, 1072>>,
                   <<1087, 1086, 1089, 1090, 1072, 1085, 1086, 1074, 1083, 1077, 1085, 1080, 1077>>>>]
>>

\* the faulty variant of match_document_type that does not lowercase the query
match_document_type_nolower(q) ==
    LET hit == {k \in 1..Len(doc_types) :
                   \E v \in 1..Len(doc_types[k].variants) :
                       Contains(q, doc_types[k].variants[v])}
    IN  IF hit = {} THEN None ELSE doc_types[Min(hit)].label

\* the faulty variant of match_document_type that returns the last entry that matches
match_document_type_last(q) ==
    LET query_lower == Lower(q)
        hit == {k \in 1..Len(doc_types) :
                   \E v \in 1..Len(doc_types[k].variants) :
                       Contains(query_lower, doc_types[k].variants[v])}
    IN  IF hit = {} THEN None
        ELSE doc_types[CHOOSE k \in hit : \A h \in hit : h <= k].label

\* the label of the first entry one of whose variants is in query.lower()
match_document_type(q) ==
    LET query_lower == Lower(q)
        hit == {k \in 1..Len(doc_types) :
                   \E v \in 1..Len(doc_types[k].variants) :
                       Contains(query_lower, doc_types[k].variants[v])}
    IN  IF hit = {} THEN None ELSE doc_types[Min(hit)].label

-----------------------------------------------------------------------------
(* The extractors as called: the argument is a str or a bytes object *)

\* bytes.decode('utf-8') of one- and two-byte sequences (U+0000..U+07FF, which
\* holds every character of the model's texts); Raised is UnicodeDecodeError.
\* The model's bytes inputs hold no lead byte of a longer sequence.
RECURSIVE Utf8Decode(_)
Utf8Decode(b) ==
    IF b = <<>> THEN <<>>
    ELSE IF b[1] < 128
         THEN LET r == Utf8Decode(Tail(b))
              IN  IF r = Raised THEN Raised ELSE <<b[1]>> \o r
    ELSE IF b[1] \in 194..223 /\ Len(b) >= 2 /\ b[2] \in 128..191
         THEN LET r == Utf8Decode(SubSeq(b, 3, Len(b)))
              IN  IF r = Raised THEN Raised
                  ELSE <<(b[1] - 192) * 64 + (b[2] - 128)>> \o r
    ELSE Raised

\* isinstance(query, bytes): decode, then the pattern loop
extract_case_number(x) ==
    IF x.kind = "bytes"
    THEN LET d == Utf8Decode(x.data)
         IN  IF d = Raised THEN Raised ELSE match_case_number(d)
    ELSE match_case_number(x.data)

\* no decoding: re.search of a str pattern on bytes raises TypeError
extract_company_name(x) ==
    IF x.kind = "bytes" THEN Raised ELSE match_company_name(x.data)

\* no decoding: bytes.lower() succeeds, then `variant in query_lower` with a str
\* variant and a bytes query raises TypeError
extract_document_type(x) ==
    IF x.kind = "bytes" THEN Raised ELSE match_document_type(x.data)

-----------------------------------------------------------------------------
(* The request search_court_decisions builds *)

\* the index registry, in its declared order; names are texts
ES_INDICES == <<
    \* court_decisions: court_decisions_index
    [index_type |-> <<99, 111, 117, 114, 116, 95, 100, 101, 99, 105, 115, 105, 111, 110, 115>>,
     index_name |-> <<99, 111, 117, 114, 116, 95, 100, 101, 99, 105, 115, 105, 111, 110, 115, 95, 105, 110, 100, 101, 120>>],
    \* court_reviews: court_reviews_index
    [index_type |-> <<99, 111, 117, 114, 116, 95, 114, 101, 118, 105, 101, 119, 115>>,
     index_name |-> <<99, 111, 117, 114, 116, 95, 114, 101, 118, 105, 101, 119, 115, 95, 105, 110, 100, 101, 120>>],
    \* legal_articles: legal_articles_index
    [index_type |-> <<108, 101, 103, 97, 108, 95, 97, 114, 116, 105, 99, 108, 101, 115>>,
     index_name |-> <<108, 101, 103, 97, 108, 95, 97, 114, 116, 105, 99, 108, 101, 115, 95, 105, 110, 100, 101, 120>>],
    \* ruslawod_chunks: ruslawod_chunks_index
    [index_type |-> <<114, 117, 115, 108, 97, 119, 111, 100, 95, 99, 104, 117, 110, 107, 115>>,
     index_name |-> <<114, 117, 115, 108, 97, 119, 111, 100, 95, 99, 104, 117, 110, 107, 115, 95, 105, 110, 100, 101, 120>>],
    \* procedural_forms: procedural_forms_index
    [index_type |-> <<112, 114, 111, 99, 101, 100, 117, 114, 97, 108, 95, 102, 111, 114, 109, 115>>,
     index_name |-> <<112, 114, 111, 99, 101, 100, 117, 114, 97, 108, 95, 102, 111, 114, 109, 115, 95, 105, 110, 100, 101, 120>>]
>>

\* one clause of a should list
Leaf(kind, field, value, boost, fuzziness) ==
    [kind |-> kind, field |-> field, value |-> value, boost |-> boost,
     fuzziness |-> fuzziness]

\* {"bool": {"should": clauses, "minimum_should_match": 1}}
BoolShould(clauses) ==
    [kind |-> "bool", should |-> clauses, minimum_should_match |-> 1]

\* variants = [case_number, case_number with the other script's letter]: Cyrillic
\* А replaced by Latin A when the number holds a Cyrillic А, else Latin A
\* replaced by Cyrillic А
Variants(case_number) ==
    <<case_number,
      IF Contains(case_number, <<1040>>)
      THEN ReplaceChar(case_number, 1040, 65)
      ELSE ReplaceChar(case_number, 65, 1040)>>

\* the faulty variant of CaseClause that searches the extracted spelling only
CaseClauseOneVariant(case_number) ==
    BoolShould(<<Leaf("term", "case_number", case_number, 10, "none"),
                 Leaf("match_phrase", "full_text", case_number, 5, "none")>>)

\* the must-clause of a case number: a term clause per variant, then a
\* match_phrase clause per variant
CaseClause(case_number) ==
    LET v == Variants(case_number)
    IN  BoolShould(
            [i \in 1..Len(v) |-> Leaf("term", "case_number", v[i], 10, "none")]
            \o [i \in 1..Len(v) |-> Leaf("match_phrase", "full_text", v[i], 5, "none")])

\* company_name.replace('«', '"').replace('»', '"').replace("'", '"')
NormalizedCompany(company_name) ==
    ReplaceChar(ReplaceChar(ReplaceChar(company_name, 171, 34), 187, 34), 39, 34)

\* re.sub(r'^(ООО|ЗАО|ОАО|ПАО|АО)\s*[«"]?\s*', '', s): no IGNORECASE here; the
\* first alternative at the start of s, spaces, one optional quote, spaces
StripLegalForm(s) ==
    LET forms == {k \in 1..Len(LegalForms) : HasAt(s, 1, LegalForms[k])}
        f == Len(LegalForms[Min(forms)])
        w == RunEnd(s, f + 1, Spaces)
        o == IF w + 1 <= Len(s) /\ IsOpenQuote(s[w + 1]) THEN w + 1 ELSE w
        e == RunEnd(s, o + 1, Spaces)
    IN  IF forms = {} THEN s ELSE SubSeq(s, e + 1, Len(s))

\* re.sub(r'[»"]?\s*$', '', s): the spaces at the end of s and one quote before
\* them are removed
StripClosingQuote(s) ==
    LET tail == {i \in 1..Len(s) : \A j \in i..Len(s) : IsSpace(s[j])}
        w == IF tail = {} THEN Len(s) ELSE Min(tail) - 1
        e == IF w >= 1 /\ IsCloseQuote(s[w]) THEN w - 1 ELSE w
    IN  SubSeq(s, 1, e)

CleanCompany(company_name) ==
    StripClosingQuote(StripLegalForm(NormalizedCompany(company_name)))

\* company_clauses
CompanyClauses(normalized_company, clean_company) ==
    <<Leaf("match_phrase", "claimant", normalized_company, 8, "none"),
      Leaf("match_phrase", "defendant", normalized_company, 8, "none"),
      Leaf("match", "claimant", clean_company, 4, "AUTO"),
      Leaf("match", "defendant", clean_company, 4, "AUTO"),
      Leaf("match_phrase", "full_text", normalized_company, 2, "none")>>

\* the must-clause of an organization name
CompanyClause(company_name) ==
    BoolShould(CompanyClauses(NormalizedCompany(company_name),
                              CleanCompany(company_name)))

\* the must-clause of a document type
DocTypeClause(doc_type) ==
    BoolShould(<<Leaf("term", "vid_dokumenta", doc_type, 6, "none"),
                 Leaf("match_phrase", "full_text", doc_type, 3, "none")>>)

\* the generic clause: multi_match over seven boosted fields
GenericClause(q) ==
    [kind |-> "multi_match",
     query |-> q,
     fields |-> <<"case_number^10", "claimant^8", "defendant^8", "subject^6",
                  "court_name^4", "judges^3", "full_text^2">>,
     type |-> "best_fields",
     operator |-> "and",
     fuzziness |-> "AUTO"]

\* "sort" of the request
SortDirective ==
    << [field |-> "_score", order |-> "desc", missing |-> "default"],
       [field |-> "date", order |-> "desc", missing |-> "_last"],
       [field |-> "doc_id", order |-> "asc", missing |-> "default"],
       [field |-> "chunk_id", order |-> "asc", missing |-> "default"] >>

\* must_clauses before the test of line 205: a clause per extracted entity
EntityClauses(case_number, company_name, doc_type) ==
    (IF Truthy(case_number) THEN <<CaseClause(case_number)>> ELSE <<>>)
    \o (IF Truthy(company_name) THEN <<CompanyClause(company_name)>> ELSE <<>>)
    \o (IF Truthy(doc_type) THEN <<DocTypeClause(doc_type)>> ELSE <<>>)

\* the test of line 205 replaced by one that adds the generic clause whatever must_clauses holds
OrGenericAlways(must_clauses, q) ==
    Append(must_clauses, GenericClause(q))

\* if not must_clauses: the generic clause is appended
OrGeneric(must_clauses, q) ==
    IF must_clauses = <<>> THEN <<GenericClause(q)>> ELSE must_clauses

\* must_clauses: a clause per extracted entity, the generic clause when none
MustClauses(q, case_number, company_name, doc_type) ==
    OrGeneric(EntityClauses(case_number, company_name, doc_type), q)

\* the request of line 225 with "size" left at the default of max_results
CourtRequestDefaultSize(q, limit, case_number, company_name, doc_type) ==
    [index |-> ES_INDICES[1].index_name,
     kind |-> "bool",
     must |-> MustClauses(q, case_number, company_name, doc_type),
     size |-> 10,
     sort |-> SortDirective]

\* the request of search_court_decisions: index and body (the fixed _source and
\* highlight parts of the body are left out)
CourtRequest(q, limit, case_number, company_name, doc_type) ==
    [index |-> ES_INDICES[1].index_name,
     kind |-> "bool",
     must |-> MustClauses(q, case_number, company_name, doc_type),
     size |-> limit,
     sort |-> SortDirective]

-----------------------------------------------------------------------------
(* The queries and arguments of the retriever's calls *)

\* str.encode('utf-8') of a text below U+0800
RECURSIVE Utf8Encode(_)
Utf8Encode(t) ==
    IF t = <<>> THEN <<>>
    ELSE (IF t[1] < 128 THEN <<t[1]>>
          ELSE <<192 + (t[1] \div 64), 128 + (t[1] % 64)>>) \o Utf8Encode(Tail(t))

\* bounds of the backend's answers and of the callers' arguments
MaxHits == 2
MaxDocs == 2
MaxScore == 2
MaxFifths == 3

QueryTexts == {
    \* А40-1/2024
    <<1040, 52, 48, 45, 49, 47, 50, 48, 50, 52>>,
    \* ООО «Ро»
    <<1054, 1054, 1054, 32, 171, 1056, 1086, 187>>,
    \* A-1/24-А (Latin prefix, Cyrillic suffix)
    <<65, 45, 49, 47, 50, 52, 45, 1040>>,
    \* ооо «Ро»
    <<1086, 1086, 1086, 32, 171, 1056, 1086, 187>>,
    \* решение суда
    <<1088, 1077, 1096, 1077, 1085, 1080, 1077, 32, 1089, 1091, 1076, 1072>>,
    \* долг
    <<1076, 1086, 1083, 1075>>,
    \* A03-1/19 решение суда
    <<65, 48, 51, 45, 49, 47, 49, 57, 32, 1088, 1077, 1096, 1077, 1085, 1080, 1077, 32, 1089, 1091, 1076, 1072>>,
    \* А40-1/2024 ООО «Ро» решение суда
    <<1040, 52, 48, 45, 49, 47, 50, 48, 50, 52, 32, 1054, 1054, 1054, 32, 171, 1056, 1086, 187, 32, 1088, 1077, 1096, 1077, 1085, 1080, 1077, 32, 1089, 1091, 1076, 1072>>
}

\* the queries a retriever is constructed with: texts, and the UTF-8 bytes of
\* a case number and of a text without entities
Queries ==
    {Str(q) : q \in QueryTexts}
    \cup {Bytes(Utf8Encode(<<1040, 52, 48, 45, 49, 47, 50, 48, 50, 52>>)),
          Bytes(Utf8Encode(<<1076, 1086, 1083, 1075>>))}

\* max_results of search(), limit of search_court_decisions()
Limits == {0, 1, 5 * MaxFifths + 1}

\* what the three extractors return for each of the queries
Extracted ==
    [q \in Queries |->
        [case_number |-> extract_case_number(q),
         company_name |-> extract_company_name(q),
         doc_type |-> extract_document_type(q)]]

-----------------------------------------------------------------------------
(* The backend's answers and what the retriever makes of them *)

\* self.es.search(...) raised, or the response could not be read
BackendError == [ok |-> FALSE]

\* response.body["hits"]["hits"]
BackendHits(hits) == [ok |-> TRUE, hits |-> hits]

\* what a call has returned: nothing yet, an exception, a list
Pending == [kind |-> "pending"]
Raises == [kind |-> "raise"]
List(items) == [kind |-> "list", items |-> items]

\* a log record: its level and the source line that emits it
Log(level, line) == [level |-> level, line |-> line]

\* source["highlights"]: the fragments of every field of hit["highlight"], a
\* list extended, anything else appended
RECURSIVE Fragments(_)
Fragments(fields) ==
    IF fields = <<>> THEN <<>>
    ELSE (IF fields[1].is_list THEN fields[1].value ELSE <<fields[1].value>>)
         \o Fragments(Tail(fields))

\* str.rstrip(chars): the longest suffix made of chars is removed
RStrip(s, chars) ==
    LET keep == {i \in 1..Len(s) : s[i] \notin chars}
    IN  IF keep = {} THEN <<>> ELSE SubSeq(s, 1, Max(keep))

\* the characters of '_index'
IndexSuffixChars == {95, 105, 110, 100, 101, 120}

\* "court_decision"
CourtDecisionTag == <<99, 111, 117, 114, 116, 95, 100, 101, 99, 105, 115, 105, 111, 110>>

\* the document made of a hit when the loop over hit["highlight"] stops after
\* its first field
PostProcessFirstField(hit, index_name, doc_type) ==
    [score |-> hit._score,
     url |-> <<101, 115, 58, 47, 47>> \o index_name \o <<47>> \o hit._id,
     index |-> index_name,
     doc_type |-> doc_type,
     highlights |-> IF hit.highlight.present
                    THEN Fragments(SubSeq(hit.highlight.fields, 1, 1)) ELSE <<>>]

\* the document made of a hit: score, url es://<index>/<id>, index, doc_type,
\* highlights
PostProcess(hit, index_name, doc_type) ==
    [score |-> hit._score,
     url |-> <<101, 115, 58, 47, 47>> \o index_name \o <<47>> \o hit._id,
     index |-> index_name,
     doc_type |-> doc_type,
     highlights |-> IF hit.highlight.present
                    THEN Fragments(hit.highlight.fields) ELSE <<>>]

PostProcessAll(hits, index_name, doc_type) ==
    [i \in 1..Len(hits) |-> PostProcess(hits[i], index_name, doc_type)]

\* what the except clause of search_court_decisions does without logging and
\* returning []: the exception goes on to the caller
CourtCaughtReraised == [results |-> Raises, errors |-> <<>>]

\* the except clause of search_court_decisions: an error record, and [] is
\* returned
CourtCaught == [results |-> List(<<>>), errors |-> <<Log("error", 309)>>]

\* search_court_decisions from its backend request on: the documents of the
\* hits, or the except clause
CourtAnswer(req, resp) ==
    IF resp.ok
    THEN [request |-> <<req>>,
          results |-> List(PostProcessAll(resp.hits, req.index, CourtDecisionTag)),
          errors |-> <<>>]
    ELSE [request |-> <<req>>] @@ CourtCaught

\* search_court_decisions when the extractors found the entities found: an
\* extractor that raised ends the call in the except clause, before a request
\* is built
CourtCall(q, limit, found, resp) ==
    IF Raised \in {found.case_number, found.company_name, found.doc_type}
    THEN [request |-> <<>>] @@ CourtCaught
    ELSE CourtAnswer(CourtRequest(q.data, limit, found.case_number,
                                  found.company_name, found.doc_type),
                     resp)

\* search_court_decisions(query, limit) when the backend answers resp: the
\* request it built (none when an extractor raised), what it returns, what it
\* logs as errors
search_court_decisions(q, limit, resp) ==
    CourtCall(q, limit, Extracted[q], resp)

\* max(2, max_results // len(ES_INDICES)) without the floor of 2
PerIndexLimitNoFloor(max_results_arg) ==
    max_results_arg \div Len(ES_INDICES)

\* per_index_limit = max(2, max_results // len(ES_INDICES))
PerIndexLimit(max_results_arg) ==
    Max({2, max_results_arg \div Len(ES_INDICES)})

\* the request of the fallback loop for one index (the highlight part of the
\* body is left out)
FallbackRequest(q, index_name, size) ==
    [index |-> index_name,
     kind |-> "multi_match",
     query |-> q,
     fields |-> <<"*">>,
     type |-> "best_fields",
     operator |-> "and",
     fuzziness |-> "AUTO",
     size |-> size]

\* the loop body that loses what was collected when a request fails
CollectDropOnError(collected, resp, entry) ==
    IF resp.ok
    THEN collected \o PostProcessAll(resp.hits, entry.index_name,
                                     RStrip(entry.index_type, IndexSuffixChars))
    ELSE <<>>

\* all_results after the loop body for one index: the documents of its hits
\* appended, nothing when the request failed
Collect(collected, resp, entry) ==
    IF resp.ok
    THEN collected \o PostProcessAll(resp.hits, entry.index_name,
                                     RStrip(entry.index_type, IndexSuffixChars))
    ELSE collected

\* the sort key of line 404 without its second component
KeyGEScoreOnly(a, b) ==
    a.score >= b.score

\* the sort key (x.get("score", 0), len(x.get("highlights", []))), compared as
\* tuples
KeyGE(a, b) ==
    \/ a.score > b.score
    \/ a.score = b.score /\ Len(a.highlights) >= Len(b.highlights)

\* list.sort(key=..., reverse=True): descending by key, documents of equal key
\* in their original order
RECURSIVE SortResults(_)
SortResults(docs) ==
    IF docs = <<>> THEN <<>>
    ELSE LET sorted == SortResults(SubSeq(docs, 1, Len(docs) - 1))
             x == docs[Len(docs)]
             p == Cardinality({i \in 1..Len(sorted) : KeyGE(sorted[i], x)})
         IN  SubSeq(sorted, 1, p) \o <<x>> \o SubSeq(sorted, p + 1, Len(sorted))

\* docs[:n]
Slice(docs, n) ==
    IF n >= 0 THEN SubSeq(docs, 1, Min({n, Len(docs)}))
    ELSE SubSeq(docs, 1, Max({0, Len(docs) + n}))

\* where search() goes when its extractor call returned found, an exception
\* included: to the except clause, into the branch, or onward
Branch(found, branch, onward) ==
    IF found = Raised THEN "raise"
    ELSE IF Truthy(found) THEN branch ELSE onward

\* where search() goes after the case-number branch: line 326 raises, or the
\* organization branch is taken, or the loop over the indices starts
AfterCase(q) == Branch(Extracted[q].company_name, "company", "fallback")

\* where search() goes first
AtEntry(q) == Branch(Extracted[q].case_number, "case", AfterCase(q))

-----------------------------------------------------------------------------
(* The texts the extractors are applied to *)

\* the bounds of the generated texts
MaxCourtDigits == 3
MaxYearDigits == 5
MaxRegDigits == 15

\* str.upper() of one character, for texts written in capitals
UpperChar(c) ==
    IF c \in 97..122 \/ c \in 1072..1103 THEN c - 32
    ELSE IF c \in 1104..1119 THEN c - 80
    ELSE c

Upper(s) == [i \in 1..Len(s) |-> UpperChar(s[i])]

\* the prefix letter of a case number: А (Cyrillic), A (Latin)
CasePrefixes == {<<1040>>, <<65>>}

\* the court code: 0..MaxCourtDigits digits of 0371
CourtCodes == {SubSeq(<<48, 51, 55, 49>>, 1, k) : k \in 0..MaxCourtDigits}

\* the running number: none, or 13997
CaseNumbers == {<<>>, <<49, 51, 57, 57, 55>>}

\* the year: 1..MaxYearDigits digits of 241953, 500123, 490000, and of
\* ٧٣١٩٥٣ (Arabic-Indic digits)
YearStems == {
    <<50, 52, 49, 57, 53, 51>>, <<53, 48, 48, 49, 50, 51>>,
    <<52, 57, 48, 48, 48, 48>>,
    <<1639, 1635, 1633, 1641, 1637, 1635>>
}

Years == {SubSeq(st, 1, k) : st \in YearStems, k \in 1..MaxYearDigits}

\* what follows the year
CaseSuffixes == {
    \* (empty)
    <<>>,
    \* -аб-1
    <<45, 1072, 1073, 45, 49>>,
    \* -
    <<45>>,
    \* -Аё
    <<45, 1040, 1105>>,
    \*  иск
    <<32, 1080, 1089, 1082>>
}

CaseTexts ==
    {p \o c \o <<45>> \o n \o <<47>> \o y \o x :
        p \in CasePrefixes, c \in CourtCodes, n \in CaseNumbers, y \in Years,
        x \in CaseSuffixes}

\* the marker of an organization, in the letter case of the query
OrgMarkers == {
    \* ООО
    <<1054, 1054, 1054>>,
    \* зао
    <<1079, 1072, 1086>>,
    \* ОАО
    <<1054, 1040, 1054>>,
    \* АО
    <<1040, 1054>>,
    \* ИП
    <<1048, 1055>>,
    \* ип
    <<1080, 1087>>,
    \* ОГРН
    <<1054, 1043, 1056, 1053>>,
    \* ИНН
    <<1048, 1053, 1053>>,
    \* инн
    <<1080, 1085, 1085>>
}

OrgSeparators == {
    \* (empty)
    <<>>,
    \*  
    <<32>>,
    \*  : 
    <<32, 58, 32>>
}

\* a registration number of n digits: 1234567890123...
RegNumber(n) == [i \in 1..n |-> 48 + (i % 10)]

OrgNames ==
    {
    \* «Сахкомцентр»
    <<171, 1057, 1072, 1093, 1082, 1086, 1084, 1094, 1077, 1085, 1090, 1088, 187>>,
    \* "Ро ма"
    <<34, 1056, 1086, 32, 1084, 1072, 34>>,
    \* «Рога
    <<171, 1056, 1086, 1075, 1072>>,
    \* Ромашка-2, и
    <<1056, 1086, 1084, 1072, 1096, 1082, 1072, 45, 50, 44, 32, 1080>>,
    \* Иванов Иван Иванович
    <<1048, 1074, 1072, 1085, 1086, 1074, 32, 1048, 1074, 1072, 1085, 32, 1048, 1074, 1072, 1085, 1086, 1074, 1080, 1095>>,
    \* иванов  и иванович
    <<1080, 1074, 1072, 1085, 1086, 1074, 32, 32, 1080, 32, 1080, 1074, 1072, 1085, 1086, 1074, 1080, 1095>>
}
    \cup {RegNumber(n) : n \in 9..MaxRegDigits}

OrgHeads == {
    \* (empty)
    <<>>,
    \* ИНН: 1234567890 
    <<1048, 1053, 1053, 58, 32, 49, 50, 51, 52, 53, 54, 55, 56, 57, 48, 32>>
}

OrgTexts ==
    {h \o m \o sp \o n : h \in OrgHeads, m \in OrgMarkers, sp \in OrgSeparators,
                         n \in OrgNames}

\* every trigger phrase of the table
AllVariants ==
    UNION {{doc_types[k].variants[v] : v \in 1..Len(doc_types[k].variants)} :
              k \in 1..Len(doc_types)}

\* the words of a query about documents: a trigger phrase, nothing, or a word
\* that holds one (поиск holds иск) or none (суда)
DocWords == AllVariants \cup {
    \* (empty)
    <<>>,
    \* поиск
    <<1087, 1086, 1080, 1089, 1082>>,
    \* суда
    <<1089, 1091, 1076, 1072>>
}

DocTexts ==
    {a \o <<32>> \o b : a \in DocWords, b \in DocWords}
    \cup {Upper(a) : a \in DocWords}

\* queries that name several entities, in either order
MixedCases == {
    \* А03-13997/2019
    <<1040, 48, 51, 45, 49, 51, 57, 57, 55, 47, 50, 48, 49, 57>>,
    \* A-1/24-А
    <<65, 45, 49, 47, 50, 52, 45, 1040>>
}

MixedOrgs == {
    \* ООО «Сахкомцентр»
    <<1054, 1054, 1054, 32, 171, 1057, 1072, 1093, 1082, 1086, 1084, 1094, 1077, 1085, 1090, 1088, 187>>,
    \* инн: 1234567890
    <<1080, 1085, 1085, 58, 32, 49, 50, 51, 52, 53, 54, 55, 56, 57, 48>>,
    \* ао ромашка
    <<1072, 1086, 32, 1088, 1086, 1084, 1072, 1096, 1082, 1072>>
}

MixedTexts ==
    {c \o <<32>> \o o \o <<32>> \o d : c \in MixedCases, o \in MixedOrgs,
                                      d \in {<<>>, <<1080, 1089, 1082>>}}
    \cup {o \o <<32>> \o c : c \in MixedCases, o \in MixedOrgs}
    \cup {c \o <<32>> \o d : c \in MixedCases, d \in MixedCases}
    \cup {<<1053, 1072, 1081, 1076, 1080, 32>> \o o : o \in MixedOrgs}   \* Найди ...
    \cup {<<1041>> \o Tail(c) : c \in MixedCases}                        \* Б03-..., Б-...

StrTexts == CaseTexts \cup OrgTexts \cup DocTexts \cup MixedTexts

\* bytes arguments: encoded texts, and byte strings that are not UTF-8 (a lone
\* continuation byte, a lead byte at the end)
BytesTexts ==
    {Utf8Encode(t) : t \in MixedTexts}
    \cup {Utf8Encode(t) \o e : t \in MixedCases, e \in {<<128>>, <<208>>}}

Inputs == {Str(t) : t \in StrTexts} \cup {Bytes(b) : b \in BytesTexts}

-----------------------------------------------------------------------------
(* The date fields of a hit's _source: datetime.strptime(v, '%Y-%m-%d')      *)
(* followed by strftime('%Y-%m-%d'), inside try/except                       *)

\* a value of a _source field: missing from the mapping, None, a number, a text
Absent == [kind |-> "absent"]
NoneValue == [kind |-> "none"]
IntValue(n) == [kind |-> "int", data |-> n]

\* bool(v) of a value
TruthyValue(v) ==
    CASE v.kind = "str" -> v.data # <<>>
      [] v.kind = "int" -> v.data # 0
      [] OTHER -> FALSE

\* int(s) of a text of digits, a leading space allowed
RECURSIVE IntOf(_)
IntOf(s) ==
    IF s = <<>> THEN 0
    ELSE IF s[1] = 32 THEN IntOf(Tail(s))
    ELSE 10 * IntOf(SubSeq(s, 1, Len(s) - 1)) + DigitVal(s[Len(s)])

\* c is one of the ASCII digits lo..hi
InRange(s, i, lo, hi) == i >= 1 /\ i <= Len(s) /\ s[i] \in (48 + lo)..(48 + hi)

\* %m at position p: the lengths of the alternatives 1[0-2], 0[1-9], [1-9]
\* that match there, in the order in which the pattern tries them
MonthLens(s, p) ==
    (IF At(s, p, 49) /\ InRange(s, p + 1, 0, 2) THEN <<2>> ELSE <<>>)
    \o (IF At(s, p, 48) /\ InRange(s, p + 1, 1, 9) THEN <<2>> ELSE <<>>)
    \o (IF InRange(s, p, 1, 9) THEN <<1>> ELSE <<>>)

\* %d at position p: the length of the first of the alternatives 3[01],
\* [12]\d, 0[1-9], [1-9], " [1-9]" that matches there, 0 when none does
DayLen(s, p) ==
    IF At(s, p, 51) /\ InRange(s, p + 1, 0, 1) THEN 2
    ELSE IF InRange(s, p, 1, 2) /\ p + 1 <= Len(s) /\ IsDigit(s[p + 1]) THEN 2
    ELSE IF At(s, p, 48) /\ InRange(s, p + 1, 1, 9) THEN 2
    ELSE IF InRange(s, p, 1, 9) THEN 1
    ELSE IF At(s, p, 32) /\ InRange(s, p + 1, 1, 9) THEN 2
    ELSE 0

IsLeap(y) == y % 4 = 0 /\ (y % 100 # 0 \/ y % 400 = 0)

DaysInMonth(y, m) ==
    IF m = 2 THEN (IF IsLeap(y) THEN 29 ELSE 28)
    ELSE IF m \in {4, 6, 9, 11} THEN 30 ELSE 31

\* ValueError or TypeError of strptime
NoDate == [ok |-> FALSE]

\* the date of year, month and day, ValueError when there is no such day or
\* the year is below datetime.MINYEAR
DateOf(y, m, d) ==
    IF y >= 1 /\ d >= 1 /\ d <= DaysInMonth(y, m)
    THEN [ok |-> TRUE, year |-> y, month |-> m, day |-> d]
    ELSE NoDate

\* the match of (?P<Y>\d\d\d\d)-(?P<m>...)-(?P<d>...) at the start of s with
\* the month alternative of length k; the text must end where the match ends
DateWithMonth(s, k) ==
    LET n == DayLen(s, 7 + k)
    IN  IF At(s, 6 + k, 45) /\ n > 0 /\ 6 + k + n = Len(s)
        THEN DateOf(IntOf(SubSeq(s, 1, 4)), IntOf(SubSeq(s, 6, 5 + k)),
                    IntOf(SubSeq(s, 7 + k, 6 + k + n)))
        ELSE NoDate

\* datetime.strptime(v, '%Y-%m-%d'): the first month alternative after which
\* "-" and a day match is the one taken
strptime(v) ==
    IF v.kind # "str" THEN NoDate
    ELSE LET s == v.data
             ks == MonthLens(s, 6)
             ok == {i \in 1..Len(ks) :
                       At(s, 6 + ks[i], 45) /\ DayLen(s, 7 + ks[i]) > 0}
         IN  IF Len(s) >= 8 /\ (\A i \in 1..4 : IsDigit(s[i])) /\ s[5] = 45
                /\ ok # {}
             THEN DateWithMonth(s, ks[Min(ok)])
             ELSE NoDate

\* the decimal digits of n
RECURSIVE Decimal(_)
Decimal(n) ==
    IF n < 10 THEN <<48 + n>> ELSE Append(Decimal(n \div 10), 48 + (n % 10))

\* the decimal digits of n, zero-filled to at least w
RECURSIVE ZeroFilled(_, _)
ZeroFilled(n, w) ==
    IF w <= 1 THEN Decimal(n)
    ELSE IF Len(Decimal(n)) >= w THEN Decimal(n)
    ELSE <<48>> \o ZeroFilled(n, w - 1)

\* %Y of strftime: the C library zero-fills a year below 1000 to four digits
\* or prints it as it is, depending on the platform
YearTexts(y) == {Decimal(y), ZeroFilled(y, 4)}

\* d.strftime('%Y-%m-%d')
strftime(d) ==
    {yt \o <<45>> \o ZeroFilled(d.month, 2) \o <<45>> \o ZeroFilled(d.day, 2) :
        yt \in YearTexts(d.year)}

\* the try statement of lines 285-293 and 378-386 with the strptime and
\* strftime calls swapped for the identity
ReformatNoOp(v) == {v}

\* the values source[date_field] can have after the try statement of lines
\* 285-293 and 378-386; the bare except leaves the value as it was
Reformat(v) ==
    IF strptime(v).ok THEN {Str(t) : t \in strftime(strptime(v))} ELSE {v}

\* the fields the two loops go through
CourtDateFields == {"date", "decision_date", "indexed_at"}
FallbackDateFields ==
    {"date", "decision_date", "publication_date", "creation_date", "indexed_at"}

\* what can stand at date_field after its round of the loop over fields
AfterRound(src, fields, date_field) ==
    IF date_field \in fields /\ src[date_field] # Absent
       /\ TruthyValue(src[date_field])
    THEN Reformat(src[date_field])
    ELSE {src[date_field]}

\* the mappings source can be after the loop over fields
ProcessDates(src, fields) ==
    {g \in [DOMAIN src -> UNION {AfterRound(src, fields, f) : f \in DOMAIN src}] :
        \A f \in DOMAIN src : g[f] \in AfterRound(src, fields, f)}

\* the texts of the date fields
DateTexts ==
    {
     <<50, 48, 50, 52, 45, 48, 49, 45, 48, 53>>,                                                         \* '2024-01-05'
     <<50, 48, 50, 52, 45, 49, 50, 45, 51, 49>>,                                                         \* '2024-12-31'
     <<50, 48, 50, 52, 45, 48, 50, 45, 50, 57>>,                                                         \* '2024-02-29'
     <<50, 48, 50, 51, 45, 48, 50, 45, 50, 57>>,                                                         \* '2023-02-29'
     <<50, 48, 50, 52, 45, 49, 51, 45, 48, 49>>,                                                         \* '2024-13-01'
     <<50, 48, 50, 52, 45, 49, 45, 53>>,                                                                 \* '2024-1-5'
     <<50, 48, 50, 52, 45, 48, 49, 45, 32, 53>>,                                                         \* '2024-01- 5'
     <<50, 48, 50, 52, 45, 49, 45, 49, 50, 51>>,                                                         \* '2024-1-123'
     <<48, 57, 57, 57, 45, 48, 49, 45, 48, 49>>,                                                         \* '0999-01-01'
     <<48, 48, 48, 48, 45, 48, 49, 45, 48, 49>>,                                                         \* '0000-01-01'
     <<1634, 1632, 1634, 1636, 45, 48, 49, 45, 48, 53>>,                                                 \* '٢٠٢٤-01-05'
     <<50, 48, 50, 52, 45, 48, 49, 45, 48, 53, 84, 49, 48, 58, 48, 48, 58, 48, 48>>,                     \* '2024-01-05T10:00:00'
     <<>>                                                                                                \* ''
    }

\* the values of the date fields of a hit
DateValues ==
    {Str(t) : t \in DateTexts} \cup {Absent, NoneValue, IntValue(0), IntValue(20240105)}

\* the _source mappings of the hits: "date" and "publication_date" vary, the
\* index timestamp is a date with a time
Sources ==
    {[f \in FallbackDateFields |->
         CASE f = "date" -> a
           [] f = "publication_date" -> b
           [] f = "indexed_at" -> Str(<<50, 48, 50, 52, 45, 48, 49, 45, 48, 53, 84, 49, 48, 58, 48, 48, 58, 48, 48>>)
           [] OTHER -> Absent] :
        a \in DateValues, b \in DateValues}

\* no hit is being post-processed
DatesIdle ==
    /\ hit_source = <<>>
    /\ source = <<>>
    /\ dpc = "idle"

-----------------------------------------------------------------------------
(* gpt_researcher/retrievers/google/google.py: GoogleSearch.search          *)

\* the number of items of a full page: the literal 10 of lines 175 and 178
PageSize == 10

\* the largest max_results of the calls
MaxGoogleResults == 21

\* max_results of the calls
GoogleLimits == {0, 1, 5, PageSize, PageSize + 2, MaxGoogleResults}

\* the keys an item of a response can have
ItemShapes ==
    {{"title", "link", "snippet", "displayLink"}, {"title", "link"},
     {"snippet"}, {}}

\* the value at key k of the item at position n of the result pages: a text
\* of the key's first letter and of n
ItemValue(k, n) ==
    <<CASE k = "title" -> 116 [] k = "link" -> 108 [] k = "snippet" -> 115
        [] OTHER -> 100,
      48 + (n % 10)>>

\* response["items"] of a page of n items with the keys of shape, the first
\* at position first of the result pages
ItemsOf(first, n, shape) ==
    [i \in 1..n |-> [k \in shape |-> ItemValue(k, first + i - 1)]]

\* what _make_search_request can do: raise, return a response without
\* "items", return a page of items
GoogleRaises == [kind |-> "raise"]
NoItems == [kind |-> "no_items"]
Page(items) == [kind |-> "items", items |-> items]

GoogleResponses(first) ==
    {GoogleRaises, NoItems}
    \cup {Page(ItemsOf(first, n, shape)) :
             n \in {0, 1, PageSize}, shape \in ItemShapes}

\* item.get(k, "")
Get(item, k) == IF k \in DOMAIN item THEN item[k] ELSE <<>>

\* the result of lines 167-171 with the snippet kept under its own key
ResultOfSnippetKey(item) ==
    [title |-> Get(item, "title"), link |-> Get(item, "link"),
     snippet |-> Get(item, "snippet")]

\* result = {"title": ..., "link": ..., "body": item.get("snippet", "")}
ResultOf(item) ==
    [title |-> Get(item, "title"), link |-> Get(item, "link"),
     body |-> Get(item, "snippet")]

\* results after the for loop over the items of a page: a result is appended
\* for each item while len(results) < max_results
RECURSIVE AppendResults(_, _, _)
AppendResults(res, items, limit) ==
    IF items = <<>> \/ Len(res) >= limit THEN res
    ELSE AppendResults(Append(res, ResultOf(items[1])), Tail(items), limit)

\* GoogleSearch.search is not running
GoogleIdle ==
    /\ gpc = "idle"
    /\ g_max_results = 0
    /\ g_results = <<>>
    /\ g_start_index = 1
    /\ g_items = <<>>
    /\ g_ret = Pending
    /\ g_calls = <<>>

-----------------------------------------------------------------------------
(* lawgpt_deep_research_integration.py: the queries of an adapter and the   *)
(* adapters of the service. A text is the sequence of its code points.      *)

\* the values of the enumeration LegalResearchType
LegalResearchType ==
    {"legislation_analysis", "case_law_research", "contract_analysis",
     "compliance_check", "legal_opinion"}

\* the number of queries generate_legal_queries can build
MaxBreadth == 6

\* the most calls of register_research_type in a behaviour
MaxRegistered == 3

\* a LegalResearchConfig: the fields the adapter reads
LegalResearchConfig(type, depth, breadth, case_law, legislation, experts) ==
    [research_type |-> type, depth_levels |-> depth,
     breadth_queries |-> breadth, include_case_law |-> case_law,
     include_legislation |-> legislation,
     include_expert_opinions |-> experts]

\* LegalResearchConfig(research_type): every other field at its default
DefaultConfig(research_type) ==
    LegalResearchConfig(research_type, 3, 4, TRUE, TRUE, TRUE)

\* legislation_config and case_law_config of example_usage
ExampleConfigs ==
    {LegalResearchConfig("legislation_analysis", 2, 3, TRUE, TRUE, FALSE),
     LegalResearchConfig("case_law_research", 3, 4, TRUE, FALSE, TRUE)}

\* the configurations of the adapters whose queries are generated
QueryConfigs ==
    {LegalResearchConfig("legal_opinion", 3, b, c, l, e) :
         b \in 0..MaxBreadth, c \in BOOLEAN, l \in BOOLEAN, e \in BOOLEAN}

\* the legal questions: empty, "долг"
LegalQuestions == {<<>>, <<1076, 1086, 1083, 1075>>}

\* the two queries of lines 69-80
LegislationQueries(legal_question) ==
    <<[query |->
          <<1072, 1082, 1090, 1091, 1072, 1083, 1100, 1085, 1072, 1103, 32,
            1088, 1077, 1076, 1072, 1082, 1094, 1080, 1103, 32, 1079, 1072,
            1082, 1086, 1085, 1086, 1076, 1072, 1090, 1077, 1083, 1100, 1089,
            1090, 1074, 1072, 32>>
          \o legal_question,
       researchGoal |->
          <<1040, 1085, 1072, 1083, 1080, 1079, 32, 1076, 1077, 1081, 1089,
            1090, 1074, 1091, 1102, 1097, 1077, 1075, 1086, 32, 1079, 1072,
            1082, 1086, 1085, 1086, 1076, 1072, 1090, 1077, 1083, 1100, 1089,
            1090, 1074, 1072>>,
       source_type |-> "legislation"],
      [query |->
          <<1080, 1079, 1084, 1077, 1085, 1077, 1085, 1080, 1103, 32, 1074,
            32, 1079, 1072, 1082, 1086, 1085, 1086, 1076, 1072, 1090, 1077,
            1083, 1100, 1089, 1090, 1074, 1077, 32>>
          \o legal_question
          \o <<32, 50, 48, 50, 52, 45, 50, 48, 50, 53>>,
       researchGoal |->
          <<1040, 1085, 1072, 1083, 1080, 1079, 32, 1087, 1086, 1089, 1083,
            1077, 1076, 1085, 1080, 1093, 32, 1080, 1079, 1084, 1077, 1085,
            1077, 1085, 1080, 1081, 32, 1074, 32, 1079, 1072, 1082, 1086,
            1085, 1086, 1076, 1072, 1090, 1077, 1083, 1100, 1089, 1090, 1074,
            1077>>,
       source_type |-> "legislation"]>>

\* the two queries of lines 84-95
CaseLawQueries(legal_question) ==
    <<[query |->
          <<1089, 1091, 1076, 1077, 1073, 1085, 1072, 1103, 32, 1087, 1088,
            1072, 1082, 1090, 1080, 1082, 1072, 32>>
          \o legal_question
          \o <<32, 1042, 1057, 32, 1056, 1060>>,
       researchGoal |->
          <<1040, 1085, 1072, 1083, 1080, 1079, 32, 1087, 1086, 1079, 1080,
            1094, 1080, 1080, 32, 1042, 1077, 1088, 1093, 1086, 1074, 1085,
            1086, 1075, 1086, 32, 1057, 1091, 1076, 1072, 32, 1056, 1060>>,
       source_type |-> "case_law"],
      [query |->
          <<1072, 1088, 1073, 1080, 1090, 1088, 1072, 1078, 1085, 1072, 1103,
            32, 1087, 1088, 1072, 1082, 1090, 1080, 1082, 1072, 32>>
          \o legal_question,
       researchGoal |->
          <<1040, 1085, 1072, 1083, 1080, 1079, 32, 1072, 1088, 1073, 1080,
            1090, 1088, 1072, 1078, 1085, 1086, 1081, 32, 1087, 1088, 1072,
            1082, 1090, 1080, 1082, 1080>>,
       source_type |-> "case_law"]>>

\* the two queries of lines 99-110
ExpertQueries(legal_question) ==
    <<[query |->
          <<1082, 1086, 1084, 1084, 1077, 1085, 1090, 1072, 1088, 1080, 1080,
            32, 1101, 1082, 1089, 1087, 1077, 1088, 1090, 1086, 1074, 32>>
          \o legal_question,
       researchGoal |->
          <<1040, 1085, 1072, 1083, 1080, 1079, 32, 1101, 1082, 1089, 1087,
            1077, 1088, 1090, 1085, 1099, 1093, 32, 1084, 1085, 1077, 1085,
            1080, 1081>>,
       source_type |-> "expert"],
      [query |->
          <<1085, 1072, 1091, 1095, 1085, 1099, 1077, 32, 1089, 1090, 1072,
            1090, 1100, 1080, 32>>
          \o legal_question
          \o <<32, 1087, 1088, 1072, 1074, 1086>>,
       researchGoal |->
          <<1040, 1085, 1072, 1083, 1080, 1079, 32, 1085, 1072, 1091, 1095,
            1085, 1099, 1093, 32, 1080, 1089, 1089, 1083, 1077, 1076, 1086,
            1074, 1072, 1085, 1080, 1081>>,
       source_type |-> "expert"]>>

\* generate_legal_queries of the adapter of config: the queries of the
\* enabled kinds in the order legislation, case law, expert, cut to
\* queries[:breadth_queries]
generate_legal_queries(config, legal_question) ==
    Slice((IF config.include_legislation
           THEN LegislationQueries(legal_question) ELSE <<>>)
          \o (IF config.include_case_law
              THEN CaseLawQueries(legal_question) ELSE <<>>)
          \o (IF config.include_expert_opinions
              THEN ExpertQueries(legal_question) ELSE <<>>),
          config.breadth_queries)

\* what the GPTResearcher of conduct_legal_deep_research can do: the import
\* fails, the researcher raises, it returns a report
ResearcherOutcomes == {"ImportError", "researcher_error", "report"}

\* conduct_legal_deep_research of the adapter of config, the researcher
\* doing outcome: the queries are generated and left unused, the researcher
\* is given breadth_queries and depth_levels, and the returned mapping
\* carries the question and the configuration's research type
conduct_legal_deep_research(config, legal_question, outcome) ==
    IF outcome = "ImportError"
    THEN [kind |-> "raise", error |-> "ImportError", invoked |-> <<config>>]
    ELSE IF outcome = "researcher_error"
    THEN [kind |-> "raise", error |-> "researcher_error",
          invoked |-> <<config>>,
          queries |-> generate_legal_queries(config, legal_question)]
    ELSE [kind |-> "dict", question |-> legal_question,
          queries |-> generate_legal_queries(config, legal_question),
          research_type |-> config.research_type,
          deep_research_breadth |-> config.breadth_queries,
          deep_research_depth |-> config.depth_levels,
          invoked |-> <<config>>]

\* self.adapters = {}
NoAdapters == [research_type \in {} |-> <<>>]

\* LawGPTDeepResearchAdapter(config)
Adapter(config) == [config |-> config]

\* no call yet
NoCall == [op |-> "none"]

\* a LawGPTDeepResearchService after __init__, no adapter used
LegalIdle ==
    /\ adapters = NoAdapters
    /\ registered = <<>>
    /\ service_call = NoCall
    /\ legal_queries = NoCall

-----------------------------------------------------------------------------
(* The extractor calls on one text (the specification SpecExtract), in the   *)
(* order in which test_information_extraction and search_court_decisions    *)
(* make them                                                                *)

InitExtract ==
    /\ text \in Inputs
    /\ case_out = Unset
    /\ company_out = Unset
    /\ doctype_out = Unset
    /\ query = Str(<<>>)
    /\ es = "unset"
    /\ initlog = <<>>
    /\ pc = "new"
    /\ call = "none"
    /\ max_results = 0
    /\ requests = <<>>
    /\ responses = <<>>
    /\ calllog = <<>>
    /\ idx = 0
    /\ all_results = <<>>
    /\ scd = <<>>
    /\ ret = Pending
    /\ DatesIdle
    /\ GoogleIdle
    /\ LegalIdle

ExtractCase ==
    /\ case_out = Unset
    /\ case_out' = extract_case_number(text)
    /\ UNCHANGED <<text, company_out, doctype_out, searchVars, dateVars, googleVars, legalVars>>

ExtractCompany ==
    /\ case_out # Unset
    /\ company_out = Unset
    /\ company_out' = extract_company_name(text)
    /\ UNCHANGED <<text, case_out, doctype_out, searchVars, dateVars, googleVars, legalVars>>

ExtractDocType ==
    /\ company_out # Unset
    /\ doctype_out = Unset
    /\ doctype_out' = extract_document_type(text)
    /\ UNCHANGED <<text, case_out, company_out, searchVars, dateVars, googleVars, legalVars>>

NextExtract == ExtractCase \/ ExtractCompany \/ ExtractDocType

SpecExtract == InitExtract /\ [][NextExtract]_vars

-----------------------------------------------------------------------------
(* The retriever: construction, search() and search_court_decisions()       *)
(* (the specification Spec). search() is followed from one backend request  *)
(* to the next.                                                             *)

\* hit["highlight"]: absent, or two fields, the first with a list of two
\* fragments and the second with a list of one
HighlightChoices ==
    {[present |-> FALSE],
     [present |-> TRUE,
      fields |-> <<[is_list |-> TRUE, value |-> <<"<b>x</b>", "<b>y</b>">>],
                   [is_list |-> TRUE, value |-> <<"<b>z</b>">>]>>]}

\* the hits of a response of n hits: ids "1".."n", scores not increasing
HitLists(n) ==
    {[i \in 1..n |-> [_id |-> <<48 + i>>, _score |-> h[i]._score,
                      highlight |-> h[i].highlight]] :
        h \in {g \in [1..n -> [_score : 1..MaxScore, highlight : HighlightChoices]] :
                  \A i \in 1..(n - 1) : g[i]._score >= g[i + 1]._score}}

\* what the backend can do with a request of the given size when the call has
\* room for that many more documents: fail, or answer with at most size hits;
\* without a client every request fails (self.es is None)
Responses(size, room) ==
    IF es = "None" THEN {BackendError}
    ELSE {BackendError}
         \cup {BackendHits(h) :
                  h \in UNION {HitLists(n) : n \in 0..Min({size, room, MaxHits})}}

Init ==
    /\ text = Str(<<>>)
    /\ case_out = Unset
    /\ company_out = Unset
    /\ doctype_out = Unset
    /\ query = Str(<<>>)
    /\ es = "unset"
    /\ initlog = <<>>
    /\ pc = "new"
    /\ call = "none"
    /\ max_results = 0
    /\ requests = <<>>
    /\ responses = <<>>
    /\ calllog = <<>>
    /\ idx = 0
    /\ all_results = <<>>
    /\ scd = <<>>
    /\ ret = Pending
    /\ DatesIdle
    /\ GoogleIdle
    /\ LegalIdle

\* CustomRetriever(q): _get_es_client returns the client, or logs an error and
\* re-raises (the Elasticsearch constructor raised, or ping() was false);
\* __init__ keeps the client, or logs the error again, sets es to None and
\* warns when no endpoint is configured. Of the log, the records of level
\* warning and above are kept.
Construct(q, conn, endpoint) ==
    /\ pc = "new"
    /\ query' = q
    /\ es' = IF conn = "ok" THEN "client" ELSE "None"
    /\ initlog' =
           IF conn = "ok" THEN <<>>
           ELSE <<Log("error", 79), Log("error", 40)>>
                \o (IF endpoint THEN <<>> ELSE <<Log("warning", 44)>>)
    /\ pc' = "ready"
    /\ UNCHANGED <<extractVars, dateVars, googleVars, legalVars, call, max_results,
                   requests, responses, calllog, idx, all_results, scd, ret>>

\* search(m) up to its first backend request
SearchStart(m) ==
    /\ pc = "ready"
    /\ call' = "search"
    /\ max_results' = m
    /\ requests' = <<>>
    /\ responses' = <<>>
    /\ all_results' = <<>>
    /\ scd' = <<>>
    /\ LET first == AtEntry(query)
       IN  IF first = "raise"
           THEN /\ pc' = "done"
                /\ ret' = List(<<>>)
                /\ calllog' = <<Log("error", 410)>>
                /\ idx' = 0
           ELSE /\ pc' = first
                /\ ret' = Pending
                /\ calllog' = <<>>
                /\ idx' = IF first = "fallback" THEN 1 ELSE 0
    /\ UNCHANGED <<extractVars, dateVars, googleVars, legalVars, query, es, initlog>>

\* what search() would do with r if the tests "if results:" of lines 320 and
\* 330 never held: it would always go on to onward
CourtStepFallsThrough(r, resp, onward) ==
    LET found == FALSE
        raised == r.results.kind = "raise" \/ (~found /\ onward = "raise")
    IN  /\ requests' = requests \o r.request
        /\ responses' = IF r.request = <<>> THEN responses
                        ELSE Append(responses, resp)
        /\ scd' = Append(scd, [request |-> r.request, response |-> resp,
                               results |-> r.results])
        /\ calllog' = calllog \o r.errors
                      \o (IF raised THEN <<Log("error", 410)>> ELSE <<>>)
        /\ IF found \/ raised
           THEN /\ ret' = IF found THEN r.results ELSE List(<<>>)
                /\ pc' = "done"
                /\ idx' = idx
           ELSE /\ ret' = ret
                /\ pc' = onward
                /\ idx' = IF onward = "fallback" THEN 1 ELSE idx
        /\ UNCHANGED <<extractVars, dateVars, googleVars, legalVars, query, es, initlog,
                       call, max_results, all_results>>

\* what search() does with r, the return of search_court_decisions for the
\* answer resp, up to the next backend request: the results are returned when
\* there are any; otherwise search() goes on to onward
CourtStep(r, resp, onward) ==
    LET found == r.results.kind = "list" /\ r.results.items # <<>>
        raised == r.results.kind = "raise" \/ (~found /\ onward = "raise")
    IN  /\ requests' = requests \o r.request
        /\ responses' = IF r.request = <<>> THEN responses
                        ELSE Append(responses, resp)
        /\ scd' = Append(scd, [request |-> r.request, response |-> resp,
                               results |-> r.results])
        /\ calllog' = calllog \o r.errors
                      \o (IF raised THEN <<Log("error", 410)>> ELSE <<>>)
        /\ IF found \/ raised
           THEN /\ ret' = IF found THEN r.results ELSE List(<<>>)
                /\ pc' = "done"
                /\ idx' = idx
           ELSE /\ ret' = ret
                /\ pc' = onward
                /\ idx' = IF onward = "fallback" THEN 1 ELSE idx
        /\ UNCHANGED <<extractVars, dateVars, googleVars, legalVars, query, es, initlog,
                       call, max_results, all_results>>

\* the branch of search() for a query with a case number
SearchCase(resp) ==
    /\ pc = "case"
    /\ CourtStep(search_court_decisions(query, max_results, resp), resp,
                 AfterCase(query))

\* the branch of search() for a query with an organization name
SearchCompany(resp) ==
    /\ pc = "company"
    /\ CourtStep(search_court_decisions(query, max_results, resp), resp,
                 "fallback")

\* a round of the loop whose except clause would drop the client after a
\* failed request (self.es = None)
SearchIndexDropsClient(resp) ==
    /\ pc = "fallback"
    /\ LET entry == ES_INDICES[idx]
           req == FallbackRequest(query.data, entry.index_name,
                                  PerIndexLimit(max_results))
           collected == Collect(all_results, resp, entry)
       IN  /\ requests' = Append(requests, req)
           /\ responses' = Append(responses, resp)
           /\ calllog' = calllog \o (IF resp.ok THEN <<>>
                                     ELSE <<Log("error", 400)>>)
           /\ IF idx = Len(ES_INDICES)
              THEN /\ all_results' = SortResults(collected)
                   /\ ret' = List(Slice(SortResults(collected), max_results))
                   /\ pc' = "done"
                   /\ idx' = idx
              ELSE /\ all_results' = collected
                   /\ ret' = ret
                   /\ pc' = pc
                   /\ idx' = idx + 1
    /\ UNCHANGED <<extractVars, dateVars, googleVars, legalVars, query, initlog, call,
                   max_results, scd>>
    /\ es' = IF resp.ok THEN es ELSE "None"

\* a round of the loop whose except clause would leave the loop (break): the
\* indices after a failed request are skipped
SearchIndexStopsOnError(resp) ==
    /\ pc = "fallback"
    /\ LET entry == ES_INDICES[idx]
           req == FallbackRequest(query.data, entry.index_name,
                                  PerIndexLimit(max_results))
           collected == Collect(all_results, resp, entry)
       IN  /\ requests' = Append(requests, req)
           /\ responses' = Append(responses, resp)
           /\ calllog' = calllog \o (IF resp.ok THEN <<>>
                                     ELSE <<Log("error", 400)>>)
           /\ IF idx = Len(ES_INDICES) \/ ~resp.ok
              THEN /\ all_results' = SortResults(collected)
                   /\ ret' = List(Slice(SortResults(collected), max_results))
                   /\ pc' = "done"
                   /\ idx' = idx
              ELSE /\ all_results' = collected
                   /\ ret' = ret
                   /\ pc' = pc
                   /\ idx' = idx + 1
    /\ UNCHANGED <<extractVars, dateVars, googleVars, legalVars, query, es, initlog, call,
                   max_results, scd>>

\* one round of the loop over ES_INDICES; the last round goes on to the sort,
\* the truncation and the return
SearchIndex(resp) ==
    /\ pc = "fallback"
    /\ LET entry == ES_INDICES[idx]
           req == FallbackRequest(query.data, entry.index_name,
                                  PerIndexLimit(max_results))
           collected == Collect(all_results, resp, entry)
       IN  /\ requests' = Append(requests, req)
           /\ responses' = Append(responses, resp)
           /\ calllog' = calllog \o (IF resp.ok THEN <<>>
                                     ELSE <<Log("error", 400)>>)
           /\ IF idx = Len(ES_INDICES)
              THEN /\ all_results' = SortResults(collected)
                   /\ ret' = List(Slice(SortResults(collected), max_results))
                   /\ pc' = "done"
                   /\ idx' = idx
              ELSE /\ all_results' = collected
                   /\ ret' = ret
                   /\ pc' = pc
                   /\ idx' = idx + 1
    /\ UNCHANGED <<extractVars, dateVars, googleVars, legalVars, query, es, initlog, call,
                   max_results, scd>>

\* search_court_decisions(self.query, limit) called by the retriever's user
SearchCourtDecisions(limit, resp) ==
    /\ pc = "ready"
    /\ \E r \in {search_court_decisions(query, limit, resp)} :
           /\ requests' = r.request
           /\ responses' = IF r.request = <<>> THEN <<>> ELSE <<resp>>
           /\ scd' = <<[request |-> r.request, response |-> resp,
                        results |-> r.results]>>
           /\ calllog' = r.errors
           /\ ret' = r.results
    /\ call' = "search_court_decisions"
    /\ max_results' = limit
    /\ pc' = "done"
    /\ idx' = 0
    /\ all_results' = <<>>
    /\ UNCHANGED <<extractVars, dateVars, googleVars, legalVars, query, es, initlog>>

\* the caller takes what the call returned; the retriever can be called again
Return ==
    /\ pc = "done"
    /\ pc' = "ready"
    /\ call' = "none"
    /\ max_results' = 0
    /\ requests' = <<>>
    /\ responses' = <<>>
    /\ calllog' = <<>>
    /\ idx' = 0
    /\ all_results' = <<>>
    /\ scd' = <<>>
    /\ ret' = Pending
    /\ UNCHANGED <<extractVars, dateVars, googleVars, legalVars, query, es, initlog>>

Next ==
    \/ \E q \in Queries, conn \in {"ok", "ping_false", "client_error"},
          endpoint \in BOOLEAN :
           Construct(q, conn, endpoint)
    \/ \E m \in Limits : SearchStart(m)
    \/ \E resp \in Responses(max_results, MaxDocs) : SearchCase(resp)
    \/ \E resp \in Responses(max_results, MaxDocs) : SearchCompany(resp)
    \/ \E resp \in Responses(PerIndexLimit(max_results),
                             MaxDocs - Len(all_results)) : SearchIndex(resp)
    \/ \E limit \in Limits :
           \E resp \in Responses(limit, MaxDocs) : SearchCourtDecisions(limit, resp)
    \/ Return

Spec == Init /\ [][Next]_vars

-----------------------------------------------------------------------------
(* The date post-processing of one hit, in search_court_decisions or in the *)
(* fallback loop of search() (the specification SpecDates)                  *)

InitDates ==
    /\ text = Str(<<>>)
    /\ case_out = Unset
    /\ company_out = Unset
    /\ doctype_out = Unset
    /\ query = Str(<<>>)
    /\ es = "unset"
    /\ initlog = <<>>
    /\ pc = "new"
    /\ call = "none"
    /\ max_results = 0
    /\ requests = <<>>
    /\ responses = <<>>
    /\ calllog = <<>>
    /\ idx = 0
    /\ all_results = <<>>
    /\ scd = <<>>
    /\ ret = Pending
    /\ hit_source \in Sources
    /\ source = hit_source
    /\ dpc \in {"court", "fallback"}
    /\ GoogleIdle
    /\ LegalIdle

\* the loop of lines 285-293 over the date fields of a hit of
\* search_court_decisions
CourtDates ==
    /\ dpc = "court"
    /\ source' \in ProcessDates(source, CourtDateFields)
    /\ dpc' = "done"
    /\ UNCHANGED <<extractVars, searchVars, hit_source, googleVars, legalVars>>

\* the loop of lines 378-386 over the date fields of a hit of the fallback
FallbackDates ==
    /\ dpc = "fallback"
    /\ source' \in ProcessDates(source, FallbackDateFields)
    /\ dpc' = "done"
    /\ UNCHANGED <<extractVars, searchVars, hit_source, googleVars, legalVars>>

NextDates == CourtDates \/ FallbackDates

SpecDates == InitDates /\ [][NextDates]_vars

-----------------------------------------------------------------------------
(* GoogleSearch.search, followed from one search request to the next (the   *)
(* specification SpecGoogle)                                                *)

InitGoogle ==
    /\ text = Str(<<>>)
    /\ case_out = Unset
    /\ company_out = Unset
    /\ doctype_out = Unset
    /\ query = Str(<<>>)
    /\ es = "unset"
    /\ initlog = <<>>
    /\ pc = "new"
    /\ call = "none"
    /\ max_results = 0
    /\ requests = <<>>
    /\ responses = <<>>
    /\ calllog = <<>>
    /\ idx = 0
    /\ all_results = <<>>
    /\ scd = <<>>
    /\ ret = Pending
    /\ DatesIdle
    /\ GoogleIdle
    /\ LegalIdle

\* search(m) up to its first request: the while loop is not entered when
\* max_results is not positive, and results[:max_results] is returned
GoogleStart(m) ==
    /\ gpc = "idle"
    /\ g_max_results' = m
    /\ g_results' = <<>>
    /\ g_start_index' = 1
    /\ g_items' = <<>>
    /\ g_calls' = <<>>
    /\ IF 0 < m
       THEN gpc' = "loop" /\ g_ret' = Pending
       ELSE gpc' = "done" /\ g_ret' = List(Slice(<<>>, m))
    /\ UNCHANGED <<extractVars, searchVars, dateVars, legalVars>>

\* a round of the while loop without line 176 (start_index += 10): the next
\* request would ask for the same page again
GoogleRoundSamePage(resp) ==
    /\ gpc = "loop"
    /\ LET res == IF resp.kind = "items"
                  THEN AppendResults(g_results, resp.items, g_max_results)
                  ELSE g_results
           break == resp.kind # "items" \/ Len(resp.items) < PageSize
       IN  /\ g_results' = res
           /\ g_items' = IF resp.kind = "items" THEN g_items \o resp.items
                         ELSE g_items
           /\ g_calls' = Append(g_calls, [start_index |-> g_start_index,
                                           response |-> resp])
           /\ g_start_index' = g_start_index
           /\ IF break \/ ~(Len(res) < g_max_results)
              THEN gpc' = "done" /\ g_ret' = List(Slice(res, g_max_results))
              ELSE gpc' = "loop" /\ g_ret' = g_ret
    /\ UNCHANGED <<extractVars, searchVars, dateVars, legalVars,
                   g_max_results>>

\* a round of the while loop whose except clause would give up what was
\* collected (results = [] before the break)
GoogleRoundDropsOnError(resp) ==
    /\ gpc = "loop"
    /\ LET res == IF resp.kind = "items"
                  THEN AppendResults(g_results, resp.items, g_max_results)
                  ELSE IF resp.kind = "raise" THEN <<>> ELSE g_results
           break == resp.kind # "items" \/ Len(resp.items) < PageSize
       IN  /\ g_results' = res
           /\ g_items' = IF resp.kind = "items" THEN g_items \o resp.items
                         ELSE g_items
           /\ g_calls' = Append(g_calls, [start_index |-> g_start_index,
                                           response |-> resp])
           /\ g_start_index' = IF break THEN g_start_index
                               ELSE g_start_index + PageSize
           /\ IF break \/ ~(Len(res) < g_max_results)
              THEN gpc' = "done" /\ g_ret' = List(Slice(res, g_max_results))
              ELSE gpc' = "loop" /\ g_ret' = g_ret
    /\ UNCHANGED <<extractVars, searchVars, dateVars, legalVars,
                   g_max_results>>

\* one round of the while loop: the request raised or the response has no
\* "items" (break); otherwise the items are taken while results is short of
\* max_results, and the loop goes on after a full page while it is still
\* short. After the loop results[:max_results] is returned.
GoogleRound(resp) ==
    /\ gpc = "loop"
    /\ LET res == IF resp.kind = "items"
                  THEN AppendResults(g_results, resp.items, g_max_results)
                  ELSE g_results
           break == resp.kind # "items" \/ Len(resp.items) < PageSize
       IN  /\ g_results' = res
           /\ g_items' = IF resp.kind = "items" THEN g_items \o resp.items
                         ELSE g_items
           /\ g_calls' = Append(g_calls, [start_index |-> g_start_index,
                                           response |-> resp])
           /\ g_start_index' = IF break THEN g_start_index
                               ELSE g_start_index + PageSize
           /\ IF break \/ ~(Len(res) < g_max_results)
              THEN gpc' = "done" /\ g_ret' = List(Slice(res, g_max_results))
              ELSE gpc' = "loop" /\ g_ret' = g_ret
    /\ UNCHANGED <<extractVars, searchVars, dateVars, legalVars,
                   g_max_results>>

\* the caller takes the list; search can be called again
GoogleReturn ==
    /\ gpc = "done"
    /\ gpc' = "idle"
    /\ g_max_results' = 0
    /\ g_results' = <<>>
    /\ g_start_index' = 1
    /\ g_items' = <<>>
    /\ g_ret' = Pending
    /\ g_calls' = <<>>
    /\ UNCHANGED <<extractVars, searchVars, dateVars, legalVars>>

NextGoogle ==
    \/ \E m \in GoogleLimits : GoogleStart(m)
    \/ \E resp \in GoogleResponses(Len(g_items) + 1) : GoogleRound(resp)
    \/ GoogleReturn

SpecGoogle == InitGoogle /\ [][NextGoogle]_vars

\* search() is synchronous: once in the loop, the call of
\* _make_search_request returns or raises and the round is carried out
SpecGoogleFair ==
    /\ SpecGoogle
    /\ WF_vars(\E resp \in GoogleResponses(Len(g_items) + 1) : GoogleRound(resp))

-----------------------------------------------------------------------------
(* The adapter and the service of lawgpt_deep_research_integration.py      *)

InitLegal ==
    /\ text = Str(<<>>)
    /\ case_out = Unset
    /\ company_out = Unset
    /\ doctype_out = Unset
    /\ query = Str(<<>>)
    /\ es = "unset"
    /\ initlog = <<>>
    /\ pc = "new"
    /\ call = "none"
    /\ max_results = 0
    /\ requests = <<>>
    /\ responses = <<>>
    /\ calllog = <<>>
    /\ idx = 0
    /\ all_results = <<>>
    /\ scd = <<>>
    /\ ret = Pending
    /\ DatesIdle
    /\ GoogleIdle
    /\ LegalIdle

\* LawGPTDeepResearchAdapter(config).generate_legal_queries(legal_question)
GenerateQueries(config, legal_question) ==
    /\ legal_queries' =
           [op |-> "generate", config |-> config, question |-> legal_question,
            queries |-> generate_legal_queries(config, legal_question)]
    /\ UNCHANGED <<extractVars, searchVars, dateVars, googleVars, adapters,
                   registered, service_call>>

NextLegalQueries ==
    \E config \in QueryConfigs, legal_question \in LegalQuestions :
        GenerateQueries(config, legal_question)

SpecLegalQueries == InitLegal /\ [][NextLegalQueries]_vars

\* register_research_type as it would be with
\* self.adapters.setdefault(research_type, ...): the adapter of a type
\* registered before is kept
RegisterKeepsFirst(research_type, config) ==
    /\ Len(registered) < MaxRegistered
    /\ adapters' = [t \in DOMAIN adapters \cup {research_type} |->
                       IF t \in DOMAIN adapters THEN adapters[t]
                       ELSE Adapter(config)]
    /\ registered' = Append(registered, [research_type |-> research_type,
                                         config |-> config])
    /\ service_call' = NoCall
    /\ UNCHANGED <<extractVars, searchVars, dateVars, googleVars,
                   legal_queries>>

\* register_research_type(research_type, config):
\* self.adapters[research_type] = LawGPTDeepResearchAdapter(config)
Register(research_type, config) ==
    /\ Len(registered) < MaxRegistered
    /\ adapters' = [t \in DOMAIN adapters \cup {research_type} |->
                       IF t = research_type THEN Adapter(config)
                       ELSE adapters[t]]
    /\ registered' = Append(registered, [research_type |-> research_type,
                                         config |-> config])
    /\ service_call' = NoCall
    /\ UNCHANGED <<extractVars, searchVars, dateVars, googleVars,
                   legal_queries>>

\* conduct_research(legal_question, research_type): ValueError for a type
\* with no adapter, otherwise what the adapter's
\* conduct_legal_deep_research returns or raises
ConductResearch(legal_question, research_type, outcome) ==
    /\ service_call' =
           [op |-> "conduct", research_type |-> research_type,
            question |-> legal_question,
            result |->
                IF research_type \notin DOMAIN adapters
                THEN [kind |-> "raise", error |-> "ValueError",
                      invoked |-> <<>>]
                ELSE conduct_legal_deep_research(
                         adapters[research_type].config, legal_question,
                         outcome)]
    /\ UNCHANGED <<extractVars, searchVars, dateVars, googleVars, adapters,
                   registered, legal_queries>>

NextLegal ==
    \/ \E research_type \in LegalResearchType, config \in ExampleConfigs :
           Register(research_type, config)
    \/ \E legal_question \in LegalQuestions,
          research_type \in LegalResearchType,
          outcome \in ResearcherOutcomes :
           ConductResearch(legal_question, research_type, outcome)

SpecLegal == InitLegal /\ [][NextLegal]_vars

-----------------------------------------------------------------------------
(* What the specification says of the extractors, stated on whole words: the *)
(* languages of the patterns, with no reference to how re.search scans       *)

\* w is (?:-[А-Яа-яA-Za-z0-9]+)*
IsSuffixGroups(w) ==
    \/ w = <<>>
    \/ /\ w[1] = 45
       /\ w[Len(w)] # 45
       /\ \A i \in 1..Len(w) : w[i] = 45 \/ IsSuffixChar(w[i])
       /\ \A i \in 1..(Len(w) - 1) : ~(w[i] = 45 /\ w[i + 1] = 45)

\* w, in full, is a case number of pattern k (1: one or two digits after the
\* letter, 2: none): letter, digits, dash, digits, slash, a year of two to four
\* digits, suffix groups
IsCaseNumber(w, k) ==
    LET dash == Find(w, <<45>>, 1)
        slash == Find(w, <<47>>, 1)
    IN  /\ Len(w) >= 1
        /\ IsCasePrefix(w[1])
        /\ dash # 0
        /\ slash > dash + 1
        /\ (dash - 2) \in (IF k = 1 THEN 1..2 ELSE {0})
        /\ \A i \in 2..(dash - 1) : IsDigit(w[i])
        /\ \A i \in (dash + 1)..(slash - 1) : IsDigit(w[i])
        /\ \E y \in 2..4 :
              /\ slash + y <= Len(w)
              /\ \A i \in (slash + 1)..(slash + y) : IsDigit(w[i])
              /\ IsSuffixGroups(SubSeq(w, slash + y + 1, Len(w)))

\* the spans <<i, j>> of q that are case numbers of pattern k
CaseSpans(q, k) ==
    {sp \in (1..Len(q)) \X (1..Len(q)) :
        /\ sp[1] < sp[2]
        /\ IsCasePrefix(q[sp[1]])
        /\ IsCaseNumber(SubSeq(q, sp[1], sp[2]), k)}

\* the span a search for the patterns, in order, matches: of the first pattern
\* that has a span, the leftmost, and of those the longest
MatchedCaseSpan(q) ==
    LET S == IF CaseSpans(q, 1) # {} THEN CaseSpans(q, 1) ELSE CaseSpans(q, 2)
        i == Min({sp[1] : sp \in S})
        j == Max({sp[2] : sp \in {x \in S : x[1] = i}})
    IN  SubSeq(q, i, j)

HasCaseNumber(q) == CaseSpans(q, 1) # {} \/ CaseSpans(q, 2) # {}

\* the span with its year made four digits by the pivot rule, when it has two
YearRewritten(span) ==
    LET slash == Find(span, <<47>>, 1)
        ylen == Cardinality({n \in 1..4 :
                    /\ slash + n <= Len(span)
                    /\ \A i \in (slash + 1)..(slash + n) : IsDigit(span[i])})
        yy == 10 * DigitVal(span[slash + 1]) + DigitVal(span[slash + 2])
    IN  IF ylen = 2
        THEN SubSeq(span, 1, slash)
             \o (IF yy < 50 THEN <<50, 48>> ELSE <<49, 57>>)
             \o SubSeq(span, slash + 1, Len(span))
        ELSE span

\* C1: on a text in which a case-number pattern matches, extract_case_number
\* returns the matched span with a two-digit year yy rewritten to 20yy when
\* yy < 50 and to 19yy when yy >= 50, and nothing else changed (a four-digit
\* year stays); on a text in which none matches it returns None.
C1_CaseNumberNormalized ==
    (text.kind = "str" /\ case_out # Unset) =>
        IF HasCaseNumber(text.data)
        THEN case_out = YearRewritten(MatchedCaseSpan(text.data))
        ELSE case_out = None

\* a case number with the year 50 or later was rewritten to 19yy
C1_Witness ==
    /\ text.kind = "str"
    /\ case_out # Unset
    /\ case_out # None
    /\ ~Contains(text.data, case_out)
    /\ Contains(case_out, <<47, 49, 57>>)

\* w begins with a legal form, in any letter case: the length of the form
FormLens(w) == {Len(LegalForms[k]) : k \in {n \in 1..Len(LegalForms) : HasAtI(w, 1, LegalForms[n])}}

\* w, in full, is legal form, spaces, opening quote, a name without closing
\* quote, closing quote
IsQuotedOrg(w) ==
    \E f \in FormLens(w) : \E o \in (f + 1)..(Len(w) - 2) :
        /\ \A i \in (f + 1)..(o - 1) : IsSpace(w[i])
        /\ IsOpenQuote(w[o])
        /\ \A i \in (o + 1)..(Len(w) - 1) : ~IsCloseQuote(w[i])
        /\ IsCloseQuote(w[Len(w)])

\* w, in full, is legal form, a space, then name characters
IsBareOrg(w) ==
    \E f \in FormLens(w) :
        /\ Len(w) >= f + 2
        /\ IsSpace(w[f + 1])
        /\ \A i \in (f + 1)..Len(w) : IsNameChar(w[i])

\* w, in full, is ИП and three words of two Cyrillic letters or more, each
\* after spaces
IsEntrepreneur(w) ==
    LET starts == {i \in 4..Len(w) : IsCyr(w[i]) /\ IsSpace(w[i - 1])}
    IN  /\ HasAtI(w, 1, <<1048, 1055>>)
        /\ Len(w) >= 3
        /\ IsSpace(w[3])
        /\ \A i \in 3..Len(w) : IsSpace(w[i]) \/ IsCyr(w[i])
        /\ IsCyr(w[Len(w)])
        /\ Cardinality(starts) = 3
        /\ \A i \in starts : i + 1 <= Len(w) /\ IsCyr(w[i + 1])

\* w, in full, is the marker, a colon between optional spaces, and a number of
\* one of the two lengths
IsRegistration(w, marker, lens) ==
    LET colon == Find(w, <<58>>, 1)
    IN  /\ HasAtI(w, 1, marker)
        /\ colon > Len(marker)
        /\ \A i \in (Len(marker) + 1)..(colon - 1) : IsSpace(w[i])
        /\ \E n \in lens :
              /\ Len(w) - n >= colon
              /\ \A i \in (colon + 1)..(Len(w) - n) : IsSpace(w[i])
              /\ \A i \in (Len(w) - n + 1)..Len(w) : IsDigit(w[i])

IsOrgName(w) ==
    \/ IsQuotedOrg(w)
    \/ IsBareOrg(w)
    \/ IsEntrepreneur(w)
    \/ IsRegistration(w, <<1054, 1043, 1056, 1053>>, {13, 15})
    \/ IsRegistration(w, <<1048, 1053, 1053>>, {10, 12})

\* some span of q is an organization of one of the five patterns
HasOrgName(q) ==
    \E i \in 1..Len(q) :
        /\ LowerChar(q[i]) \in {1086, 1079, 1087, 1072, 1080}
        /\ \E j \in i..Len(q) : IsOrgName(SubSeq(q, i, j))

\* C2: on a text in which an organization pattern matches, extract_company_name
\* returns a whole matched span of the text as it stands there, legal form (or
\* ИП, ОГРН, ИНН marker), quotes and name included, never the inner name alone.
C2_CompanyFullSpan ==
    (text.kind = "str" /\ company_out # Unset /\ HasOrgName(text.data)) =>
        /\ company_out # None
        /\ Contains(text.data, company_out)
        /\ IsOrgName(company_out)

\* a quoted name was returned with its legal form and both quotes
C2_Witness ==
    /\ text.kind = "str"
    /\ company_out # Unset
    /\ company_out # None
    /\ IsQuotedOrg(company_out)
    /\ Len(company_out) < Len(text.data)

\* the labels in the order the specification declares them
DocTypeOrder == <<
    \* исковое заявление
    <<1080, 1089, 1082, 1086, 1074, 1086, 1077, 32, 1079, 1072, 1103, 1074, 1083, 1077, 1085, 1080, 1077>>,
    \* отзыв
    <<1086, 1090, 1079, 1099, 1074>>,
    \* апелляционная жалоба
    <<1072, 1087, 1077, 1083, 1083, 1103, 1094, 1080, 1086, 1085, 1085, 1072, 1103, 32, 1078, 1072, 1083, 1086, 1073, 1072>>,
    \* кассационная жалоба
    <<1082, 1072, 1089, 1089, 1072, 1094, 1080, 1086, 1085, 1085, 1072, 1103, 32, 1078, 1072, 1083, 1086, 1073, 1072>>,
    \* заявление
    <<1079, 1072, 1103, 1074, 1083, 1077, 1085, 1080, 1077>>,
    \* определение
    <<1086, 1087, 1088, 1077, 1076, 1077, 1083, 1077, 1085, 1080, 1077>>,
    \* решение
    <<1088, 1077, 1096, 1077, 1085, 1080, 1077>>,
    \* постановление
    <<1087, 1086, 1089, 1090, 1072, 1085, 1086, 1074, 1083, 1077, 1085, 1080, 1077>>
>>

TriggersOf(label) ==
    UNION {{doc_types[k].variants[v] : v \in 1..Len(doc_types[k].variants)} :
              k \in {n \in 1..Len(doc_types) : doc_types[n].label = label}}

\* a trigger phrase of the label is a substring of the lowercased q
TriggerIn(label, q) ==
    \E v \in TriggersOf(label) : \E i \in 1..Len(q) : HasAt(Lower(q), i, v)

\* C3: extract_document_type returns the first label, in the declared order,
\* one of whose trigger phrases is a substring of the lowercased text; a later
\* label only when no trigger of an earlier label is in the text; None when no
\* trigger of any label is.
C3_DocTypeFirstInOrder ==
    (text.kind = "str" /\ doctype_out # Unset) =>
        /\ \A n \in 1..Len(DocTypeOrder) :
              (doctype_out = DocTypeOrder[n]) <=>
                  /\ TriggerIn(DocTypeOrder[n], text.data)
                  /\ \A m \in 1..(n - 1) : ~TriggerIn(DocTypeOrder[m], text.data)
        /\ (doctype_out = None) <=>
              \A n \in 1..Len(DocTypeOrder) : ~TriggerIn(DocTypeOrder[n], text.data)

\* a text holds triggers of two labels and the earlier label was returned
C3_Witness ==
    /\ text.kind = "str"
    /\ doctype_out = DocTypeOrder[2]
    /\ TriggerIn(DocTypeOrder[8], text.data)

\* C4: on a text with no case-number pattern, no organization pattern and no
\* trigger phrase, each extractor returns None (none of them raises).
C4_NothingRecognized ==
    ( /\ text.kind = "str"
      /\ ~HasCaseNumber(text.data)
      /\ ~HasOrgName(text.data)
      /\ \A n \in 1..Len(DocTypeOrder) : ~TriggerIn(DocTypeOrder[n], text.data) ) =>
        /\ case_out \in {Unset, None}
        /\ company_out \in {Unset, None}
        /\ doctype_out \in {Unset, None}

\* the three extractors returned None on a text that is not empty
C4_Witness ==
    /\ text.kind = "str"
    /\ Len(text.data) > 5
    /\ case_out = None
    /\ company_out = None
    /\ doctype_out = None


-----------------------------------------------------------------------------
(* What the specification says of the requests and of the returns of        *)
(* search() and search_court_decisions() (the specification Spec)           *)

\* the positions in requests of the requests of search_court_decisions and of
\* the loop over the indices
CourtRequestsAt == {i \in 1..Len(requests) : requests[i].kind = "bool"}
FallbackRequestsAt == {i \in 1..Len(requests) : requests[i].kind = "multi_match"}

\* search() has returned from the sort and truncation after the loop
FallbackDone == call = "search" /\ pc = "done" /\ idx = Len(ES_INDICES)

\* the generic clause: multi_match over the seven fields with their boosts
IsGenericClause(c) ==
    /\ c.kind = "multi_match"
    /\ c.fields = <<"case_number^10", "claimant^8", "defendant^8", "subject^6",
                    "court_name^4", "judges^3", "full_text^2">>
    /\ c.operator = "and"
    /\ c.fuzziness = "AUTO"

HasGenericClause(must) == \E j \in 1..Len(must) : IsGenericClause(must[j])

\* the entities the extractors find in the retriever's query
Found == Extracted[query]

\* C5: every request built by search_court_decisions has a non-empty must
\* list; the generic multi_match clause is in it if and only if no case
\* number, no organization name and no document type was extracted from the
\* query, and then it is the only clause.
C5_MustNonEmptyGenericIffNoEntity ==
    \A i \in CourtRequestsAt :
        /\ Len(requests[i].must) >= 1
        /\ HasGenericClause(requests[i].must)
               <=> (Found.case_number \in {None, <<>>}
                    /\ Found.company_name \in {None, <<>>}
                    /\ Found.doc_type \in {None, <<>>})
        /\ HasGenericClause(requests[i].must) => Len(requests[i].must) = 1

\* search_court_decisions was called for a query without entities and built a
\* request with the generic clause
C5_Witness ==
    /\ call = "search_court_decisions"
    /\ pc = "done"
    /\ CourtRequestsAt # {}
    /\ Found.case_number = None /\ Found.company_name = None /\ Found.doc_type = None
    /\ IsGenericClause(requests[1].must[1])

\* only a case number is extracted from the query
OnlyCaseNumber ==
    /\ Found.case_number \notin {None, <<>>, Raised}
    /\ Found.company_name = None
    /\ Found.doc_type = None

\* sh holds a clause of the kind on the field for the text v with the boost
HasLeaf(sh, kind, field, v, boost) ==
    \E j \in 1..Len(sh) :
        /\ sh[j].kind = kind
        /\ sh[j].field = field
        /\ sh[j].value = v
        /\ sh[j].boost = boost

\* the spellings of a case number the request searches
ScriptVariants(case_number) ==
    {Variants(case_number)[k] : k \in 1..Len(Variants(case_number))}

\* C6: when only a case number is extracted, the request of
\* search_court_decisions has exactly one must-clause: a bool clause with
\* minimum_should_match 1 whose should list holds, for each script variant of
\* the number, a term clause on case_number with boost 10 and a match_phrase
\* clause on full_text with boost 5, and nothing else.
C6_CaseOnlyClause ==
    \A i \in CourtRequestsAt :
        OnlyCaseNumber =>
            /\ Len(requests[i].must) = 1
            /\ requests[i].must[1].kind = "bool"
            /\ requests[i].must[1].minimum_should_match = 1
            /\ Len(requests[i].must[1].should)
                   = 2 * Cardinality(ScriptVariants(Found.case_number))
            /\ \A v \in ScriptVariants(Found.case_number) :
                   /\ HasLeaf(requests[i].must[1].should, "term", "case_number", v, 10)
                   /\ HasLeaf(requests[i].must[1].should, "match_phrase", "full_text", v, 5)

\* a request was built for a query that holds a case number and nothing else,
\* and the number has two spellings
C6_Witness ==
    /\ CourtRequestsAt # {}
    /\ OnlyCaseNumber
    /\ Cardinality(ScriptVariants(Found.case_number)) = 2

\* C7: every request of the loop over the indices has size
\* max(2, max_results div 5); when the loop is over every configured index
\* has been queried, and for max_results >= 0 the returned list has at most
\* max_results elements.
C7_PerIndexSizeAndTotal ==
    /\ \A i \in FallbackRequestsAt :
           requests[i].size = Max({2, max_results \div 5})
    /\ FallbackDone =>
           /\ \A k \in 1..Len(ES_INDICES) :
                  \E i \in FallbackRequestsAt :
                      requests[i].index = ES_INDICES[k].index_name
           /\ max_results >= 0 => Len(ret.items) <= max_results

\* the loop collected more documents than max_results and the returned list
\* was cut to max_results
C7_Witness ==
    /\ FallbackDone
    /\ max_results = 1
    /\ Len(all_results) > max_results
    /\ Len(ret.items) = max_results

\* the document d is the post-processed hit h of the index
IsDocumentOf(d, h, index_name) == d = PostProcess(h, index_name, d.doc_type)

\* the requests of the loop that were answered with hits
AnsweredAt == {i \in FallbackRequestsAt : responses[i].ok}

\* every hit of every answered request of the loop has its document in docs
HitsIn(docs) ==
    \A i \in AnsweredAt :
        \A n \in 1..Len(responses[i].hits) :
            \E j \in 1..Len(docs) :
                IsDocumentOf(docs[j], responses[i].hits[n], requests[i].index)

\* the number of hits of the answered requests of the loop
RECURSIVE HitCount(_)
HitCount(at) ==
    IF at = {} THEN 0
    ELSE Len(responses[Min(at)].hits) + HitCount(at \ {Min(at)})

\* C8 as stated: whichever requests of the loop fail, every hit of the other
\* indices has its document in the returned list.
C8_AllHitsReturned ==
    FallbackDone => HitsIn(ret.items)

\* C8: whichever requests of the loop fail, every hit of the other indices is
\* post-processed and collected, nothing else is, and the returned list is
\* the first max_results documents of the sorted collection; every hit is
\* returned when the hits are no more than max_results.
C8_HitsCollectedThenTruncated ==
    FallbackDone =>
        /\ HitsIn(all_results)
        /\ Len(all_results) = HitCount(AnsweredAt)
        /\ ret.items = SubSeq(all_results, 1, Min({max_results, Len(all_results)}))
        /\ HitCount(AnsweredAt) <= max_results => HitsIn(ret.items)

\* a request of the loop failed between two that were answered with a hit, and
\* both documents were returned
C8_Witness ==
    /\ FallbackDone
    /\ \E a, b, c \in FallbackRequestsAt :
           /\ a < b /\ b < c
           /\ responses[a].ok /\ responses[a].hits # <<>>
           /\ ~responses[b].ok
           /\ responses[c].ok /\ responses[c].hits # <<>>
    /\ Len(ret.items) = 2
    /\ HitsIn(ret.items)

\* C9: no call raises to its caller: search_court_decisions returns a list,
\* the empty one when its backend request failed, and search() returns a list.
C9_NeverRaises ==
    /\ ret.kind # "raise"
    /\ pc = "done" => ret.kind = "list"
    /\ \A i \in 1..Len(scd) :
           /\ scd[i].results.kind = "list"
           /\ (scd[i].request # <<>> /\ ~scd[i].response.ok)
                  => scd[i].results.items = <<>>

\* with a live client, the backend failed the request of search_court_decisions
\* within search(), which returned a list all the same
C9_Witness ==
    /\ es = "client"
    /\ call = "search"
    /\ pc = "done"
    /\ ret.kind = "list"
    /\ \E i \in 1..Len(scd) :
           /\ scd[i].request # <<>>
           /\ ~scd[i].response.ok
           /\ scd[i].results = List(<<>>)

\* the error records the constructor logged
InitErrors == {i \in 1..Len(initlog) : initlog[i].level = "error"}

\* C10 as stated: after a construction that could not reach the backend, es is
\* None, exactly one error record was logged, and every search() returns [].
C10_OneErrorRecordNoClient ==
    (pc # "new" /\ initlog # <<>>) =>
        /\ es = "None"
        /\ Cardinality(InitErrors) = 1
        /\ (call = "search" /\ pc = "done") => ret = List(<<>>)

\* a construction that could not reach the backend was followed by a search():
\* es is None, search() returned [], and the constructor logged two error
\* records
C10_Witness ==
    /\ es = "None"
    /\ call = "search"
    /\ pc = "done"
    /\ ret = List(<<>>)
    /\ Cardinality(InitErrors) = 2

-----------------------------------------------------------------------------
(* What the specification says of byte-encoded extractor inputs             *)
(* (the specification SpecExtract)                                          *)

\* the text is the UTF-8 encoding of a text
IsEncodedText == text.kind = "bytes" /\ Utf8Decode(text.data) # Raised

\* C11 as stated: on a byte-encoded input each of the three extractors
\* returns what it returns for the decoded text, and none of them raises.
C11_BytesDecodedByAll ==
    IsEncodedText =>
        /\ case_out \in {Unset, match_case_number(Utf8Decode(text.data))}
        /\ company_out \in {Unset, match_company_name(Utf8Decode(text.data))}
        /\ doctype_out \in {Unset, match_document_type(Utf8Decode(text.data))}

\* on the encoding of a text with a case number and an organization,
\* extract_case_number returned the number of the decoded text and
\* extract_company_name raised
C11_Witness ==
    /\ IsEncodedText
    /\ case_out = match_case_number(Utf8Decode(text.data))
    /\ case_out # None
    /\ match_company_name(Utf8Decode(text.data)) # None
    /\ company_out = Raised

-----------------------------------------------------------------------------
(* What the specification says of the requests and results of the retriever *)
(* (the specification Spec), continued                                      *)

\* C12: every request built by search_court_decisions, whatever entities were
\* extracted, has size equal to the caller's limit and the same sort:
\* _score descending, date descending with missing values last, doc_id
\* ascending, chunk_id ascending.
C12_CourtRequestSizeAndSort ==
    \A i \in CourtRequestsAt :
        /\ requests[i].size = max_results
        /\ Len(requests[i].sort) = 4
        /\ requests[i].sort[1] =
               [field |-> "_score", order |-> "desc", missing |-> "default"]
        /\ requests[i].sort[2] =
               [field |-> "date", order |-> "desc", missing |-> "_last"]
        /\ requests[i].sort[3] =
               [field |-> "doc_id", order |-> "asc", missing |-> "default"]
        /\ requests[i].sort[4] =
               [field |-> "chunk_id", order |-> "asc", missing |-> "default"]

\* search_court_decisions built a request of three entity clauses for the
\* largest limit
C12_Witness ==
    \E i \in CourtRequestsAt :
        /\ Len(requests[i].must) = 3
        /\ requests[i].size = 5 * MaxFifths + 1
        /\ max_results = 5 * MaxFifths + 1

\* the doc_type tag the loop gives the documents of an index
TagOfIndex(index_name) ==
    RStrip((CHOOSE e \in {ES_INDICES[k] : k \in 1..Len(ES_INDICES)} :
                e.index_name = index_name).index_type,
           IndexSuffixChars)

\* the per-index results of the answered requests at, concatenated in the
\* order of the requests
RECURSIVE Concatenated(_)
Concatenated(at) ==
    IF at = {} THEN <<>>
    ELSE LET i == Min(at)
         IN  [n \in 1..Len(responses[i].hits) |->
                 PostProcess(responses[i].hits[n], requests[i].index,
                             TagOfIndex(requests[i].index))]
             \o Concatenated(at \ {i})

\* (score, number of highlight fragments) of a is at least that of b
PairGE(a, b) ==
    \/ a.score > b.score
    \/ a.score = b.score /\ Len(a.highlights) >= Len(b.highlights)

\* chosen is made of distinct elements of docs, and no element of docs left
\* out is greater than one of chosen
IsGreatestOf(chosen, docs) ==
    \E f \in [1..Len(chosen) -> 1..Len(docs)] :
        /\ \A j, k \in 1..Len(chosen) : j # k => f[j] # f[k]
        /\ \A j \in 1..Len(chosen) : chosen[j] = docs[f[j]]
        /\ \A k \in 1..Len(docs) :
               (\A j \in 1..Len(chosen) : f[j] # k)
                   => \A j \in 1..Len(chosen) : PairGE(chosen[j], docs[k])

\* C13: the list the multi-index fallback of search() returns is in
\* non-increasing order of (score, number of highlight fragments) and is made
\* of the max_results greatest elements, under that order, of the
\* concatenation of the per-index results.
C13_SortedThenTruncated ==
    FallbackDone =>
        /\ \A j \in 1..(Len(ret.items) - 1) :
               PairGE(ret.items[j], ret.items[j + 1])
        /\ Len(ret.items) =
               Min({max_results, Len(Concatenated(AnsweredAt))})
        /\ IsGreatestOf(ret.items, Concatenated(AnsweredAt))

\* of two collected documents of equal score the second has more highlight
\* fragments, and with max_results = 1 it is the one returned
C13_Witness ==
    /\ FallbackDone
    /\ max_results = 1
    /\ \E c \in {Concatenated(AnsweredAt)} :
           /\ Len(c) = 2
           /\ c[1].score = c[2].score
           /\ Len(c[1].highlights) < Len(c[2].highlights)
           /\ ret.items = <<c[2]>>

\* the number of fragments of the fields before field k
RECURSIVE FragmentsBefore(_, _)
FragmentsBefore(fields, k) ==
    IF k <= 1 THEN 0
    ELSE FragmentsBefore(fields, k - 1) + Len(fields[k - 1].value)

\* h holds the fragments of the hit's highlight, field after field and, within
\* a field, fragment after fragment; it is empty when the hit has no highlight
IsFlattened(h, hit) ==
    IF ~hit.highlight.present THEN h = <<>>
    ELSE LET fields == hit.highlight.fields
         IN  /\ Len(h) = FragmentsBefore(fields, Len(fields) + 1)
             /\ \A k \in 1..Len(fields) :
                    \A n \in 1..Len(fields[k].value) :
                        h[FragmentsBefore(fields, k) + n] = fields[k].value[n]

\* the document d carries what C14 says of the hit of the index
CarriesHit(d, hit, index_name) ==
    /\ d.score = hit._score
    /\ d.url = <<101, 115, 58, 47, 47>> \o index_name \o <<47>> \o hit._id
    /\ d.index = index_name
    /\ d.doc_type # <<>>
    /\ IsFlattened(d.highlights, hit)

\* a call returned the documents of search_court_decisions
CourtDone ==
    /\ pc = "done"
    /\ ~FallbackDone
    /\ ret.kind = "list"
    /\ ret.items # <<>>

\* C14: every document returned by either search path carries the hit's
\* score, the url es://<index name>/<document id>, the index name, a doc_type
\* tag, and as highlights the hit's fragments field after field, fragment
\* after fragment (none when the hit has no highlight).
C14_DocumentsCarryHit ==
    /\ CourtDone =>
           \E s \in {scd[Len(scd)]} :
               /\ s.response.ok
               /\ Len(ret.items) = Len(s.response.hits)
               /\ \A j \in 1..Len(ret.items) :
                      CarriesHit(ret.items[j], s.response.hits[j],
                                 ES_INDICES[1].index_name)
    /\ FallbackDone =>
           \A j \in 1..Len(ret.items) :
               \E i \in AnsweredAt :
                   \E n \in 1..Len(responses[i].hits) :
                       CarriesHit(ret.items[j], responses[i].hits[n],
                                  requests[i].index)

\* search_court_decisions returned two documents, the first with the three
\* fragments of its hit's two fields in order, the second of a hit without
\* highlight
C14_Witness ==
    /\ CourtDone
    /\ Len(ret.items) = 2
    /\ ret.items[1].highlights = <<"<b>x</b>", "<b>y</b>", "<b>z</b>">>
    /\ ret.items[2].highlights = <<>>
    /\ ~scd[Len(scd)].response.hits[2].highlight.present

-----------------------------------------------------------------------------
(* What the specification says of the date post-processing (the             *)
(* specification SpecDates)                                                 *)

\* C15 as stated: the date post-processing of a document never changes a
\* value: whatever a date field holds, a valid YYYY-MM-DD date or not, it
\* holds the same value afterwards.
C15_DatesNeverChanged ==
    dpc = "done" => source = hit_source

\* the hit's "date" was '2024-1-5' and is '2024-01-05' after the loop, while
\* its "indexed_at", a date with a time, is as it was
C15_Witness ==
    /\ dpc = "done"
    /\ hit_source["date"] = Str(<<50, 48, 50, 52, 45, 49, 45, 53>>)
    /\ source["date"] = Str(<<50, 48, 50, 52, 45, 48, 49, 45, 48, 53>>)
    /\ source["indexed_at"] = hit_source["indexed_at"]

-----------------------------------------------------------------------------
(* What the specification says of the requests and results of the retriever *)
(* (the specification Spec), continued                                      *)

\* the characters around the name proper of an organization
QuoteChars == {171, 187, 34, 39}

\* the extracted organization name begins with a legal form, in any letter
\* case
HasLegalFormPrefix(name) ==
    \E k \in 1..Len(LegalForms) : HasAtI(name, 1, LegalForms[k])

\* v is name without its leading legal form, in any letter case, and without
\* the quotes and spaces around what follows
IsCleanNameOf(v, name) ==
    \E k \in 1..Len(LegalForms) :
        \E h \in Len(LegalForms[k])..Len(name) :
            /\ HasAtI(name, 1, LegalForms[k])
            /\ \A j \in (Len(LegalForms[k]) + 1)..h :
                   name[j] \in Spaces \cup QuoteChars
            /\ Len(v) >= 1
            /\ h + Len(v) <= Len(name)
            /\ v = SubSeq(name, h + 1, h + Len(v))
            /\ v[1] \notin Spaces \cup QuoteChars
            /\ v[Len(v)] \notin Spaces \cup QuoteChars
            /\ \A j \in (h + Len(v) + 1)..Len(name) :
                   name[j] \in Spaces \cup QuoteChars

\* the texts of the fuzzy match clauses of the request at i
CleanNamesAt(i) ==
    {requests[i].must[j].should[k].value :
        <<j, k>> \in {<<a, b>> \in (1..Len(requests[i].must)) \X (1..5) :
                        /\ requests[i].must[a].kind = "bool"
                        /\ b <= Len(requests[i].must[a].should)
                        /\ requests[i].must[a].should[b].kind = "match"}}

\* C16 as stated: when the organization name extracted from the query begins
\* with a legal form, in whatever letter case, the two fuzzy match clauses of
\* the request search the name without the legal form and without the quotes.
C16_CleanNameStripped ==
    \A i \in CourtRequestsAt :
        (Truthy(Found.company_name) /\ Found.company_name # Raised
         /\ HasLegalFormPrefix(Found.company_name))
            => /\ CleanNamesAt(i) # {}
               /\ \A v \in CleanNamesAt(i) : IsCleanNameOf(v, Found.company_name)

\* for the query with the legal form in lower case the fuzzy match clauses
\* search the name with its legal form and opening quote: ооо "Ро
C16_Witness ==
    \E i \in CourtRequestsAt :
        /\ query = Str(<<1086, 1086, 1086, 32, 171, 1056, 1086, 187>>)
        /\ CleanNamesAt(i) = {<<1086, 1086, 1086, 32, 34, 1056, 1086>>}

-----------------------------------------------------------------------------
(* What the test of GoogleSearch.search expects (the specification          *)
(* SpecGoogle)                                                              *)

\* the value the backend item has at the key, the empty text when it has none
ValueOr(item, k) == IF k \in DOMAIN item THEN item[k] ELSE <<>>

\* C17: GoogleSearch.search(max_results) returns a list of at most
\* max_results elements, each a mapping with exactly the keys title, link and
\* body; title and link are the item's, body is the item's snippet, and each
\* is the empty text when the item has no such key.
C17_GoogleResults ==
    gpc = "done" =>
        /\ g_ret.kind = "list"
        /\ Len(g_ret.items) <= g_max_results
        /\ Len(g_ret.items) <= Len(g_items)
        /\ \A j \in 1..Len(g_ret.items) :
               /\ DOMAIN g_ret.items[j] = {"title", "link", "body"}
               /\ g_ret.items[j].title = ValueOr(g_items[j], "title")
               /\ g_ret.items[j].link = ValueOr(g_items[j], "link")
               /\ g_ret.items[j].body = ValueOr(g_items[j], "snippet")

\* search(12) returned twelve results from two full pages: the first page's
\* items have every key, the second page's only a snippet, so that title and
\* link of the last result are empty
C17_Witness ==
    /\ gpc = "done"
    /\ g_max_results = PageSize + 2
    /\ Len(g_ret.items) = PageSize + 2
    /\ Len(g_items) = 2 * PageSize
    /\ DOMAIN g_items[1] = {"title", "link", "snippet", "displayLink"}
    /\ g_ret.items[1].body = g_items[1]["snippet"]
    /\ g_ret.items[1].title = g_items[1]["title"]
    /\ DOMAIN g_items[PageSize + 2] = {"snippet"}
    /\ g_ret.items[PageSize + 2].title = <<>>
    /\ g_ret.items[PageSize + 2].body # <<>>

-----------------------------------------------------------------------------
(* What the specification says of the retriever's shared state (the         *)
(* specification Spec)                                                      *)

-----------------------------------------------------------------------------
(* What the specification says of the order of the requests of search()     *)
(* (the specification Spec)                                                 *)

\* C19 as stated: within one search() call, no request of the multi-index
\* fallback follows a call of search_court_decisions made for a recognized
\* case number or organization name.
C19_NoFallbackAfterEntitySearch ==
    call = "search" => ~(scd # <<>> /\ FallbackRequestsAt # {})

\* C19: within one search() call, the requests of the multi-index fallback
\* are issued only when no call of search_court_decisions returned a
\* document: none was made, or each one made returned the empty list (no hit,
\* or a failed request). When one returns documents, search() returns them
\* and issues no request of the fallback.
C19_FallbackOnlyAfterEmptyEntitySearch ==
    call = "search" =>
        /\ FallbackRequestsAt # {} =>
               \A i \in 1..Len(scd) : scd[i].results = List(<<>>)
        /\ \A i \in 1..Len(scd) :
               (scd[i].results.kind = "list" /\ scd[i].results.items # <<>>)
                   => /\ i = Len(scd)
                      /\ pc = "done"
                      /\ ret = scd[i].results
                      /\ FallbackRequestsAt = {}

\* the searches by case number and by organization name both returned
\* nothing, the fallback loop ran and search() returned its documents
C19_Witness ==
    /\ FallbackDone
    /\ Len(scd) = 2
    /\ \A i \in 1..2 : scd[i].request # <<>> /\ scd[i].results = List(<<>>)
    /\ scd[1].response.ok
    /\ ~scd[2].response.ok
    /\ ret.items # <<>>

-----------------------------------------------------------------------------
(* What the specification says of the order of the patterns (the            *)
(* specification SpecExtract)                                               *)

\* w, in full, is an organization of the k-th pattern of extract_company_name
IsOrgOfPattern(w, k) ==
    CASE k = 1 -> IsQuotedOrg(w)
      [] k = 2 -> IsBareOrg(w)
      [] k = 3 -> IsEntrepreneur(w)
      [] k = 4 -> IsRegistration(w, <<1054, 1043, 1056, 1053>>, {13, 15})
      [] OTHER -> IsRegistration(w, <<1048, 1053, 1053>>, {10, 12})

\* the positions of q at which a span of the k-th organization pattern begins
OrgStarts(q, k) ==
    {i \in 1..Len(q) : \E j \in i..Len(q) : IsOrgOfPattern(SubSeq(q, i, j), k)}

\* the organization patterns that have a span in q
OrgPatternsIn(q) == {k \in 1..5 : OrgStarts(q, k) # {}}

\* the case numbers, year rewritten, of the spans of q of the k-th pattern
CaseNumbersOf(q, k) ==
    {YearRewritten(SubSeq(q, sp[1], sp[2])) : sp \in CaseSpans(q, k)}

\* C20: extract_case_number and extract_company_name return the match of the
\* first pattern of their list that matches anywhere in the text, also when a
\* later pattern matches at an earlier position.
C20_FirstPatternWins ==
    text.kind = "str" =>
        /\ (case_out # Unset /\ CaseSpans(text.data, 1) # {})
               => case_out \in CaseNumbersOf(text.data, 1)
        /\ (company_out # Unset /\ OrgPatternsIn(text.data) # {})
               => /\ company_out # None
                  /\ Contains(text.data, company_out)
                  /\ IsOrgOfPattern(company_out, Min(OrgPatternsIn(text.data)))

\* extract_company_name returned the quoted name of a text in which an ИНН
\* number stands before it
C20_Witness ==
    /\ text.kind = "str"
    /\ company_out # Unset
    /\ company_out # None
    /\ IsQuotedOrg(company_out)
    /\ OrgStarts(text.data, 5) # {}
    /\ Min(OrgStarts(text.data, 5)) < Min(OrgStarts(text.data, 1))

-----------------------------------------------------------------------------
(* What the specification says of the script variants of a case number (the *)
(* specification Spec)                                                      *)

\* the texts of the term clauses on case_number of the request at i
TermValuesAt(i) ==
    {requests[i].must[j].should[k].value :
        <<j, k>> \in {<<a, b>> \in (1..Len(requests[i].must)) \X (1..5) :
                        /\ requests[i].must[a].kind = "bool"
                        /\ b <= Len(requests[i].must[a].should)
                        /\ requests[i].must[a].should[b].kind = "term"
                        /\ requests[i].must[a].should[b].field = "case_number"}}

\* the retriever's query holds a case number
HasCaseEntity == Found.case_number \notin {None, <<>>, Raised}

\* C21 as stated: for every extracted case number the term clauses of the
\* request search exactly two distinct spellings, one whose prefix letter is
\* Cyrillic А and one whose prefix letter is Latin A.
C21_BothPrefixSpellings ==
    \A i \in CourtRequestsAt :
        HasCaseEntity =>
            /\ Cardinality(TermValuesAt(i)) = 2
            /\ \E v \in TermValuesAt(i) : v[1] = 1040
            /\ \E v \in TermValuesAt(i) : v[1] = 65

\* for the query A-1/24-А, Latin prefix and Cyrillic suffix, the two spellings
\* searched are A-1/2024-А and A-1/2024-A: neither has the Cyrillic prefix
C21_Witness ==
    \E i \in CourtRequestsAt :
        /\ query = Str(<<65, 45, 49, 47, 50, 52, 45, 1040>>)
        /\ TermValuesAt(i) =
               {<<65, 45, 49, 47, 50, 48, 50, 52, 45, 1040>>,
                <<65, 45, 49, 47, 50, 48, 50, 52, 45, 65>>}

-----------------------------------------------------------------------------
(* What the specification says of the requests of the multi-index fallback  *)
(* (the specification Spec)                                                 *)

\* the physical indices in registry order: court_decisions, court_reviews,
\* legal_articles, ruslawod_chunks, procedural_forms, each with _index
RegistryOrder ==
    <<
       <<99, 111, 117, 114, 116, 95, 100, 101, 99, 105, 115, 105, 111, 110, 115>> \o <<95, 105, 110, 100, 101, 120>>,
       <<99, 111, 117, 114, 116, 95, 114, 101, 118, 105, 101, 119, 115>> \o <<95, 105, 110, 100, 101, 120>>,
       <<108, 101, 103, 97, 108, 95, 97, 114, 116, 105, 99, 108, 101, 115>> \o <<95, 105, 110, 100, 101, 120>>,
       <<114, 117, 115, 108, 97, 119, 111, 100, 95, 99, 104, 117, 110, 107, 115>> \o <<95, 105, 110, 100, 101, 120>>,
       <<112, 114, 111, 99, 101, 100, 117, 114, 97, 108, 95, 102, 111, 114, 109, 115>> \o <<95, 105, 110, 100, 101, 120>>
    >>

\* the indices of the requests of the fallback loop, in the order in which
\* they were issued
FallbackIndices ==
    [k \in 1..Cardinality(FallbackRequestsAt) |->
        requests[Min(FallbackRequestsAt) + k - 1].index]

\* C22: the multi-index fallback of search() issues one request per
\* configured index, one after another in registry order: while the loop
\* runs the indices requested so far are the first ones of the registry,
\* each once, and once search() has returned after reaching the loop they are
\* all five, whichever requests failed.
C22_OneRequestPerIndexInOrder ==
    (call = "search" /\ FallbackRequestsAt # {}) =>
        /\ FallbackRequestsAt
               = Min(FallbackRequestsAt)..Len(requests)
        /\ Len(FallbackIndices) <= Len(RegistryOrder)
        /\ FallbackIndices = SubSeq(RegistryOrder, 1, Len(FallbackIndices))
        /\ Len(responses) = Len(requests)
        /\ pc = "done" => Len(FallbackIndices) = Len(RegistryOrder)

\* the loop has run to its end although its first and third requests failed
C22_Witness ==
    /\ FallbackDone
    /\ Cardinality(FallbackRequestsAt) = 5
    /\ ~responses[Min(FallbackRequestsAt)].ok
    /\ responses[Min(FallbackRequestsAt) + 1].ok
    /\ ~responses[Min(FallbackRequestsAt) + 2].ok
    /\ FallbackIndices[5] = RegistryOrder[5]

-----------------------------------------------------------------------------
(* What the specification says of the year of a case number (the            *)
(* specification SpecExtract)                                               *)

\* extract_case_number returned a case number
CaseReturned == case_out \notin {Unset, None, Raised}

\* the number of digits that follow the slash of a case number
YearDigits(cn) ==
    Cardinality({n \in 1..Len(cn) :
        /\ Find(cn, <<47>>, 1) + n <= Len(cn)
        /\ \A i \in 1..n : IsDigit(cn[Find(cn, <<47>>, 1) + i])})

\* C23 as stated: every case number returned by extract_case_number has a
\* year, the digits between the slash and the optional suffix, of exactly
\* four digits.
C23_YearHasFourDigits ==
    CaseReturned => YearDigits(case_out) = 4

\* extract_case_number returned a number with a year of three digits, as it
\* stands in the text
C23_Witness ==
    /\ text.kind = "str"
    /\ CaseReturned
    /\ YearDigits(case_out) = 3
    /\ Contains(text.data, case_out)

-----------------------------------------------------------------------------
(* What the specification says of the result budget of the multi-index      *)
(* fallback (the specification Spec)                                        *)

\* the sum of the sizes of the requests at
RECURSIVE SizeSum(_)
SizeSum(at) ==
    IF at = {} THEN 0
    ELSE requests[Min(at)].size + SizeSum(at \ {Min(at)})

\* C24 as stated: in the multi-index fallback the sizes of the per-index
\* requests add up to at least max_results, so that the indices can together
\* return max_results documents.
C24_SizesCoverMaxResults ==
    FallbackDone => SizeSum(FallbackRequestsAt) >= max_results

\* the loop has run for max_results = 16 with five requests of size 3, which
\* add up to 15
C24_Witness ==
    /\ FallbackDone
    /\ max_results = 5 * MaxFifths + 1
    /\ Cardinality(FallbackRequestsAt) = Len(ES_INDICES)
    /\ \A i \in FallbackRequestsAt : requests[i].size = MaxFifths
    /\ SizeSum(FallbackRequestsAt) = 5 * MaxFifths

\* a call of search() or of search_court_decisions() returned a list
ListReturned == pc = "done" /\ ret.kind = "list"

\* the returned documents that come from the court-decisions index
CourtIndexDocsAt ==
    {j \in 1..Len(ret.items) : ret.items[j].index = ES_INDICES[1].index_name}

\* C25 as stated: a document of the court-decisions index carries the same
\* doc_type whichever path returned it, the tag of search_court_decisions.
C25_SameTagOnBothPaths ==
    ListReturned =>
        \A j \in CourtIndexDocsAt : ret.items[j].doc_type = CourtDecisionTag

\* the loop returned a document of the court-decisions index, tagged
\* court_decisions
C25_Witness ==
    /\ FallbackDone
    /\ ListReturned
    /\ \E j \in CourtIndexDocsAt :
           /\ ret.items[j].doc_type = TagOfIndex(ES_INDICES[1].index_name)
           /\ ret.items[j].doc_type = CourtDecisionTag \o <<115>>

\* C26 as stated: within one call of search() the search of the
\* court-decisions index is made at most once.
C26_CourtSearchAtMostOnce ==
    call = "search" => Len(scd) <= 1

\* search() called search_court_decisions twice for a query with a case
\* number and an organization name, and sent the backend the same request
\* both times
C26_Witness ==
    /\ call = "search"
    /\ Len(scd) = 2
    /\ Found.case_number # None
    /\ Found.company_name # None
    /\ scd[1].request # <<>>
    /\ scd[1].request = scd[2].request
    /\ Len(requests) >= 2
    /\ requests[1] = requests[2]

-----------------------------------------------------------------------------
(* What the specification says of the pages GoogleSearch.search requests    *)
(* (the specifications SpecGoogle and SpecGoogleFair)                       *)

\* ceil(m / 10) for a positive m, 0 otherwise
MaxPages(m) == IF m <= 0 THEN 0 ELSE (m + PageSize - 1) \div PageSize

\* the response ends the paging: no "items" key, or fewer than 10 items
IsLastPage(resp) ==
    \/ resp.kind = "no_items"
    \/ resp.kind = "items" /\ Len(resp.items) < PageSize

\* the start indices are 1, 11, 21, ... in this order; there are at most
\* ceil(max_results / 10) requests; every request but the last was answered
\* with a full page, and the call is over after a page that ends the paging
PagesInOrder ==
    /\ \A i \in 1..Len(g_calls) :
           g_calls[i].start_index = 1 + PageSize * (i - 1)
    /\ Len(g_calls) <= MaxPages(g_max_results)
    /\ \A i \in 1..Len(g_calls) :
           IsLastPage(g_calls[i].response) => i = Len(g_calls) /\ gpc = "done"

\* C27: GoogleSearch.search(max_results) terminates whatever the backend
\* answers; it requests the pages with start indices 1, 11, 21, ... in this
\* order, makes at most ceil(max_results / 10) requests (none when
\* max_results <= 0), and stops at the first page that has no items key or
\* fewer than 10 items.
C27_TerminatesWithinPageBudget ==
    /\ [](PagesInOrder)
    /\ (gpc = "loop") ~> (gpc = "done")

\* a call for 21 results ended after three requests, the third for start
\* index 21, answered with a short page
C27_Witness ==
    /\ gpc = "done"
    /\ g_max_results = MaxGoogleResults
    /\ Len(g_calls) = 3
    /\ g_calls[3].start_index = 2 * PageSize + 1
    /\ g_calls[3].response.kind = "items"
    /\ Len(g_calls[3].response.items) = 1
    /\ Len(g_ret.items) = MaxGoogleResults

\* the calls of _make_search_request that raised
FailedCallsAt == {i \in 1..Len(g_calls) : g_calls[i].response.kind = "raise"}

\* C28: when the request for a page fails, GoogleSearch.search does not raise
\* and returns exactly the results of the pages fetched before the failure,
\* in their order; no page is requested after the failure.
C28_FailureKeepsResults ==
    \A i \in FailedCallsAt :
        /\ i = Len(g_calls)
        /\ gpc = "done"
        /\ g_ret.kind = "list"
        /\ Len(g_items) = PageSize * (i - 1)
        /\ Len(g_ret.items) = Len(g_items)
        /\ \A j \in 1..Len(g_items) :
               /\ g_ret.items[j].title = ValueOr(g_items[j], "title")
               /\ g_ret.items[j].link = ValueOr(g_items[j], "link")
               /\ g_ret.items[j].body = ValueOr(g_items[j], "snippet")

\* the third request of a call for 21 results raised, and the call returned
\* the twenty results of the first two pages
C28_Witness ==
    /\ gpc = "done"
    /\ g_max_results = MaxGoogleResults
    /\ FailedCallsAt = {3}
    /\ g_ret.kind = "list"
    /\ Len(g_ret.items) = 2 * PageSize
    /\ g_ret.items[1].title # g_ret.items[PageSize + 1].title

-----------------------------------------------------------------------------
(* What the specification says of the legal queries and of the service     *)
(* (the specifications SpecLegalQueries and SpecLegal)                      *)

\* the source kinds enabled in config
EnabledKinds(config) ==
    (IF config.include_legislation THEN {"legislation"} ELSE {})
    \cup (IF config.include_case_law THEN {"case_law"} ELSE {})
    \cup (IF config.include_expert_opinions THEN {"expert"} ELSE {})

\* the source kinds of the queries
KindsOf(queries) == {queries[i].source_type : i \in 1..Len(queries)}

\* C29 as stated: for a configuration with breadth_queries >= 1 every enabled
\* source kind has a query in the return of generate_legal_queries; with
\* include_expert_opinions there is a query of source_type expert.
C29_EnabledKindsRepresented ==
    (legal_queries.op = "generate" /\ legal_queries.config.breadth_queries >= 1)
        => EnabledKinds(legal_queries.config) \subseteq KindsOf(legal_queries.queries)

\* the queries of an adapter with the default configuration were generated:
\* four queries, two of legislation and two of case law, none of an expert
C29_Witness ==
    /\ legal_queries.op = "generate"
    /\ legal_queries.config = DefaultConfig("legal_opinion")
    /\ legal_queries.question # <<>>
    /\ Len(legal_queries.queries) = 4
    /\ KindsOf(legal_queries.queries) = {"legislation", "case_law"}

\* the positions in registered of the registrations of research_type
RegisteredAt(research_type) ==
    {i \in 1..Len(registered) : registered[i].research_type = research_type}

\* what conduct_research did agrees with the registrations before it
ConductFollowsRegistrations ==
    service_call.op = "conduct" =>
        IF RegisteredAt(service_call.research_type) = {}
        THEN /\ service_call.result.kind = "raise"
             /\ service_call.result.error = "ValueError"
             /\ service_call.result.invoked = <<>>
        ELSE \E c \in {registered[Max(RegisteredAt(service_call.research_type))].config} :
                /\ service_call.result.invoked = <<c>>
                /\ service_call.result.kind = "raise" =>
                       service_call.result.error # "ValueError"
                /\ service_call.result.kind = "dict" =>
                       /\ service_call.result.question = service_call.question
                       /\ service_call.result.research_type = c.research_type
                       /\ service_call.result.deep_research_breadth
                              = c.breadth_queries
                       /\ service_call.result.deep_research_depth
                              = c.depth_levels

\* a registration leaves the adapters of the other types as they were
RegisterKeepsOthers ==
    registered' # registered =>
        \A t \in DOMAIN adapters :
            t # registered'[Len(registered')].research_type =>
                t \in DOMAIN adapters' /\ adapters'[t] = adapters[t]

\* C30: after any sequence of register_research_type calls,
\* conduct_research(question, t) raises ValueError without invoking an
\* adapter when t was never registered, and otherwise delegates to the
\* adapter built from the configuration registered last for t; registering t
\* leaves the adapters of the other types unchanged.
C30_ServiceDelegates ==
    /\ [](ConductFollowsRegistrations)
    /\ [][RegisterKeepsOthers]_vars

\* a type was registered, another type was registered, the first type was
\* registered again with another configuration, and conduct_research for
\* the first type returned the mapping of the adapter of the last one
C30_Witness ==
    /\ Len(registered) = 3
    /\ registered[1].research_type = registered[3].research_type
    /\ registered[2].research_type # registered[1].research_type
    /\ registered[1].config # registered[3].config
    /\ service_call.op = "conduct"
    /\ service_call.research_type = registered[1].research_type
    /\ service_call.result.kind = "dict"
    /\ service_call.result.invoked = <<registered[3].config>>
    /\ adapters[registered[2].research_type].config = registered[2].config
====
